---- MODULE Spec2Model ----
(***************************************************************************)
(* Model of the forest_snapshots pipeline coordination layer:              *)
(*   - the broker client and queue topology (files/rabbitmq.py),           *)
(*   - the Upload worker (files/upload_snapshots.py),                      *)
(*   - the Validate worker (files/validate_snapshots.py),                  *)
(*   - the cursor-recovery reads of Compute and Build                      *)
(*     (files/compute_state.py, files/build_snapshots.py).                 *)
(*                                                                         *)
(* Three specifications share the variables:                               *)
(*   Spec          Build publishes envelopes, the Upload worker runs       *)
(*   SpecValidate  Upload publishes envelopes, the Validate worker runs    *)
(*   SpecHead      publishers and cursor readers of the head queues        *)
(***************************************************************************)
EXTENDS Integers, Sequences, FiniteSets, TLC

VARIABLES
    broker,       \* the RabbitMQ broker: queues, unacked deliveries, publish counts
    store,        \* the object store: key -> content
    metrics,      \* per worker: success/failure counters and total gauge
    u_pc,         \* Upload main loop: "poll" | "join"
    u_idx,        \* Upload main loop: index in the for-loop over its three queues
    u_task,       \* Upload: the subordinate thread of the message being processed
    u_abandoned,  \* Upload: threads left running after a timeout
    v_pc,         \* Validate main loop: "poll" | "join"
    v_task,       \* Validate: the subordinate thread of the message being processed
    v_abandoned,  \* Validate: threads left running after a timeout
    v_metadata,   \* Validate: whether main has bound its local metadata
    lotus,        \* the secondary daemon container: is the imported daemon running
    env,          \* the process environment of the workers
    chain,        \* the chain head epoch get_current_epoch reports
    cmp,          \* Compute worker: position and locals of main
    bld,          \* Build worker: position and locals of the build loops
    fs,           \* the snapshot files on disk
    readers       \* cursor readers: "idle", or "open" between fetch and close

vars == <<broker, store, metrics, u_pc, u_idx, u_task, u_abandoned,
          v_pc, v_task, v_abandoned, v_metadata, lotus, env, chain, cmp, bld,
          fs, readers>>

-----------------------------------------------------------------------------
(* Bounds of the model *)

\* number of envelopes the upstream stage publishes in one run
MaxMsgs == 1
\* number of threads that may be left running after timeouts
MaxAbandoned == 1
\* number of publishes in the head-queue specification
MaxPublish == 3
\* number of cursors Compute publishes in one run
MaxCursors == 3

\* sentinel retries of one build_snapshot call
MaxRetries == 2

\* failed build_snapshot calls of one run of Build
MaxFailures == 1

\* messages queued for the Upload worker when it starts
MaxQueued == 2

\* epochs the chain grows by while Build runs
MaxChainGrowth == 300

-----------------------------------------------------------------------------
(* Queue topology: rabbitmq.py *)

Streams == {"compute", "snapshot", "snapshot-latest", "snapshot-diff",
            "validate", "validate-failed", "upload", "upload-failed"}

\* owners of a broker connection
Conns == {"upload", "validate", "compute", "build"}

\* the workers that recover their cursor from a head queue
CursorReaders == {"compute", "build"}

\* x-max-length of every head queue
HeadMaxLength == 1

\* Snapshot folders; the variant of a snapshot is the folder of its build path
Folders == {"lite", "diff", "latest-v1", "latest-v2"}

NoTask == [pc |-> "none"]

\* x-overflow = drop-head: messages are dropped from the front of the queue
\* until the ready length is within x-max-length
DropHeadMutantKeepOldest(q) ==
    IF Len(q) > HeadMaxLength THEN SubSeq(q, 1, HeadMaxLength) ELSE q

DropHead(q) ==
    IF Len(q) > HeadMaxLength
    THEN SubSeq(q, Len(q) - HeadMaxLength + 1, Len(q))
    ELSE q

\* A requeued message returns to its original position in the queue.
InsertById(q, m) ==
    LET before == SelectSeq(q, LAMBDA x : x.id < m.id)
        after  == SelectSeq(q, LAMBDA x : x.id >= m.id)
    IN  before \o <<m>> \o after

\* The broker after RabbitMQClient.setup: every queue declared and empty.
setup ==
    [ main |-> [s \in Streams |-> <<>>],
      head |-> [s \in Streams |-> <<>>],
      dlq  |-> [s \in Streams |-> <<>>],
      held |-> [c \in Conns |-> <<>>],
      count |-> [s \in Streams |-> 0] ]

\* RabbitMQClient.produce: publish to the fanout exchange S, which is bound
\* to the main queue S and to the head queue S-head.
ProduceMutantMainOnly(b, S, body) ==
    [b EXCEPT !.main[S] = Append(@, [id |-> b.count[S] + 1, body |-> body]),
              !.count[S] = @ + 1]

produce(b, S, body) ==
    LET m == [id |-> b.count[S] + 1, body |-> body]
    IN  [b EXCEPT !.main[S] = Append(@, m),
                  !.head[S] = DropHead(Append(@, m)),
                  !.count[S] = @ + 1]

\* The queue basic_get reads from: S-head when latest, else S.
ConsumeQueueMutantMain(b, S, latest) == b.main[S]

ConsumeQueue(b, S, latest) == IF latest THEN b.head[S] ELSE b.main[S]

\* RabbitMQClient.consume: basic_get with auto_ack=False. The message leaves
\* the ready part of the queue and joins the unacked ones of the connection.
consume(b, c, S, latest) ==
    LET q == ConsumeQueue(b, S, latest)
        d == [q |-> S, latest |-> latest, msg |-> Head(q)]
    IN  IF q = <<>> THEN b
        ELSE IF latest
             THEN [b EXCEPT !.head[S] = Tail(q), !.held[c] = Append(@, d)]
             ELSE [b EXCEPT !.main[S] = Tail(q), !.held[c] = Append(@, d)]

\* the unacked deliveries of a connection but the one fetched last, which is
\* the one whose delivery tag the worker holds
Settled(held) == SubSeq(held, 1, Len(held) - 1)

\* An unacked message goes back to the queue it came from.
Requeue(b, c) ==
    LET d == b.held[c][Len(b.held[c])]
    IN  IF d.latest
        THEN [b EXCEPT !.head[d.q] = DropHead(InsertById(@, d.msg)),
                       !.held[c] = Settled(@)]
        ELSE [b EXCEPT !.main[d.q] = InsertById(@, d.msg),
                       !.held[c] = Settled(@)]

\* RabbitMQClient.ack
ack(b, c) == [b EXCEPT !.held[c] = Settled(@)]

\* RabbitMQClient.reject: requeue, or dead-letter through S.dlx to S.dlq
\* (only the main queues declare a dead-letter exchange).
reject(b, c, requeue) ==
    LET d == b.held[c][Len(b.held[c])]
    IN  IF requeue THEN Requeue(b, c)
        ELSE IF d.latest THEN [b EXCEPT !.held[c] = Settled(@)]
        ELSE [b EXCEPT !.dlq[d.q] = Append(@, d.msg), !.held[c] = Settled(@)]

\* RabbitMQClient.close (also __exit__ of the with-block): the broker
\* requeues everything the closed channel left unacked.
RECURSIVE close(_, _)
CloseMutantKeepUnacked(b, c) == b
close(b, c) == IF b.held[c] = <<>> THEN b ELSE close(Requeue(b, c), c)

\* RabbitMQClient.get_queue_size: the ready messages of the main queue.
get_queue_size(b, S) == Len(b.main[S])

-----------------------------------------------------------------------------
(* Metrics: metrics.py *)

Workers == {"upload", "validate", "build", "compute"}

MetricsInit == [w \in Workers |-> [success |-> 0, failure |-> 0, total |-> 0]]

set_total(mt, w, value) ==
    [mt EXCEPT ![w] = [success |-> 0, failure |-> 0, total |-> value]]

inc_success(mt, w) == [mt EXCEPT ![w].success = @ + 1]

inc_failure(mt, w) == [mt EXCEPT ![w].failure = @ + 1]

-----------------------------------------------------------------------------
(* Envelope: snapshot.py *)

\* SnapshotMetadata as build_snapshot fills it: the epoch, the build path
\* (folder and file of the snapshot; snap is the height in the file name)
\* and the validation record at its defaults.
NewEnvelope(snap, folder) ==
    [ epoch |-> snap,
      build_path |-> [folder |-> folder, snap |-> snap],
      success |-> FALSE,
      forest_version |-> "unknown",
      lotus_version |-> "unknown",
      validation_date |-> "None" ]

JsonKeys == {"Epoch", "Build path", "Success", "Forest version", "Lotus version",
             "Validation date"}

\* SnapshotMetadata.to_json: dump by alias
to_json(md) ==
    [k \in JsonKeys |->
        CASE k = "Epoch" -> md.epoch
          [] k = "Build path" -> md.build_path
          [] k = "Success" -> md.success
          [] k = "Forest version" -> md.forest_version
          [] k = "Lotus version" -> md.lotus_version
          [] k = "Validation date" -> md.validation_date]

\* SnapshotMetadata.from_json: validate the aliased keys into the model
from_json(js) ==
    [ epoch |-> js["Epoch"],
      build_path |-> js["Build path"],
      success |-> js["Success"],
      forest_version |-> js["Forest version"],
      lotus_version |-> js["Lotus version"],
      validation_date |-> js["Validation date"] ]

\* json.loads and model_validate accept a body only when it has the shape
\* of an envelope; from_json raises on any other
IsEnvelope(js) == DOMAIN js = JsonKeys

\* a message body that is no envelope and no number
MalformedBody == [raw |-> "malformed"]

\* The snapshot file a message body names.
SnapOf(body) == body["Build path"].snap

\* Routing of build_snapshot: the exchange of a variant.
BuildExchange(folder) ==
    IF folder \in {"latest-v1", "latest-v2"} THEN "snapshot-latest"
    ELSE IF folder = "lite" THEN "snapshot"
    ELSE "snapshot-diff"

-----------------------------------------------------------------------------
(* Object store: upload_snapshots.py *)

\* the snapshots messages name: those Build publishes during a run, or those
\* queued when the Upload worker starts
Snaps == 1 .. (IF MaxMsgs > MaxQueued THEN MaxMsgs ELSE MaxQueued)

StoreKinds == {"sha256sum", "metadata", "blob"}

StoreKeys == Snaps \X StoreKinds

Absent == [kind |-> "absent"]

StoreInit == [k \in StoreKeys |-> Absent]

\* r2_upload_artifact: the bucket of a file, by the name of its folder
r2_bucket(destination) ==
    IF destination = "latest-v2" THEN "LATEST_V2_BUCKET_NAME"
    ELSE IF destination = "latest" THEN "LATEST_BUCKET_NAME"
    ELSE "ARCHIVE_BUCKET_NAME"

\* an object as s3.upload_file leaves it: its bucket, the prefix
\* <CHAIN>/<folder>/ of its key, what was written, and how many times the
\* key has been written
StoredObject(path, content, puts) ==
    [ bucket |-> r2_bucket(path.folder),
      prefix |-> <<"CHAIN", path.folder>>,
      content |-> content,
      puts |-> puts ]

\* upload_file on a key: the object is replaced
put_object(st, path, kind, content) ==
    [st EXCEPT ![<<path.snap, kind>>] =
        StoredObject(path, content,
                     IF @ = Absent THEN 1 ELSE @.puts + 1)]

\* r2_upload_artifact: HEAD first; a present key is left as it is and
\* reported as uploaded; a 404 triggers the put; any other error, or a
\* failing put, is reported as False. The set of possible results; found
\* tells that the HEAD found the object.
r2_upload_artifactMutantOverwrite(st, path, kind, content) ==
    {[store |-> put_object(st, path, kind, content), ok |-> TRUE,
      found |-> st[<<path.snap, kind>>] # Absent],
     [store |-> st, ok |-> FALSE, found |-> FALSE]}
r2_upload_artifact(st, path, kind, content) ==
    IF st[<<path.snap, kind>>] # Absent
    THEN {[store |-> st, ok |-> TRUE, found |-> TRUE],
          [store |-> st, ok |-> FALSE, found |-> FALSE]}
    ELSE {[store |-> put_object(st, path, kind, content), ok |-> TRUE,
           found |-> FALSE],
          [store |-> st, ok |-> FALSE, found |-> FALSE]}

\* The sidecar upload_metadata writes: both validation records unsuccessful.
UploadMetadataContent ==
    [kind |-> "metadata", success |-> FALSE, validation_date |-> "None"]

-----------------------------------------------------------------------------
(* Upload worker: upload_snapshots.py *)

UploadQueues == <<"snapshot", "snapshot-diff", "snapshot-latest">>

UploadDelivery == broker.held["upload"][1]

UploadAlive(t) == t.pc = "running"

\* The snapshot file a message names.
PathOf(body) == body["Build path"]

\* the kinds a run of r2_upload_artifact adds to those found present
Found(found, kind, r) == IF r.found THEN found \cup {kind} ELSE found

\* upload_sha256: hash the file, write <path>.sha256sum and put it; the
\* result of the put is not looked at. Raises when the file cannot be read.
upload_sha256(t, st) ==
    {[raised |-> TRUE, store |-> st, found |-> {}]} \cup
    {[raised |-> FALSE, store |-> r.store, found |-> Found({}, "sha256sum", r)] :
        r \in r2_upload_artifact(st, PathOf(t.body), "sha256sum",
                                 [kind |-> "sha256sum"])}

\* upload_metadata: two tool calls, write <path>.metadata.json and put it;
\* upload_snapshot does not look at the result. Raises when a tool call fails.
upload_metadata(t, st) ==
    {[raised |-> TRUE, store |-> st, found |-> {}]} \cup
    {[raised |-> FALSE, store |-> r.store, found |-> Found({}, "metadata", r)] :
        r \in r2_upload_artifact(st, PathOf(t.body), "metadata",
                                 UploadMetadataContent)}

\* The thread running upload_snapshot to its end: the set of outcomes
\* [task, store]. An exception leaves the thread dead with result unset;
\* otherwise the put of the blob decides the result.
upload_snapshot(t, st) ==
    LET dead(x) == [task |-> [t EXCEPT !.pc = "dead"], store |-> x]
    IN  UNION { IF a.raised THEN {dead(a.store)}
                ELSE UNION { IF m.raised THEN {dead(m.store)}
                             ELSE {[task |-> [t EXCEPT !.pc = "done", !.result = r.ok,
                                                      !.found = Found(a.found \cup m.found,
                                                                      "blob", r)],
                                    store |-> r.store] :
                                   r \in r2_upload_artifact(m.store, PathOf(t.body),
                                                            "blob", [kind |-> "blob"])}
                             : m \in upload_metadata(t, a.store) }
                : a \in upload_sha256(t, st) }

UploadUnchangedValidate ==
    UNCHANGED <<v_pc, v_task, v_abandoned, v_metadata, lotus, env, chain, cmp,
                bld, fs, readers>>

\* The number of envelopes Build has published so far.
Built ==
    broker.count["snapshot"] + broker.count["snapshot-diff"]
        + broker.count["snapshot-latest"]

\* build_snapshot publishes the envelope of a finished snapshot.
Build_produce ==
    /\ Built < MaxMsgs
    /\ readers["build"] = "idle"
    /\ \E folder \in Folders :
        broker' = produce(broker, BuildExchange(folder),
                          to_json(NewEnvelope(Built + 1, folder)))
    /\ UNCHANGED <<store, metrics, u_pc, u_idx, u_task, u_abandoned>>
    /\ UploadUnchangedValidate

\* main: the polled queue is empty; the with-block closes, the for-loop goes
\* on (after the last queue the worker sleeps and starts over).
Upload_main_empty ==
    /\ u_pc = "poll"
    /\ broker.main[UploadQueues[u_idx]] = <<>>
    /\ u_idx' = IF u_idx = Len(UploadQueues) THEN 1 ELSE u_idx + 1
    /\ UNCHANGED <<broker, store, metrics, u_pc, u_task, u_abandoned>>
    /\ UploadUnchangedValidate

\* main: a message is fetched; set_total; process_snapshot starts the thread.
Upload_main_consume ==
    /\ u_pc = "poll"
    /\ broker.main[UploadQueues[u_idx]] # <<>>
    /\ broker' = consume(broker, "upload", UploadQueues[u_idx], FALSE)
    /\ metrics' = set_total(metrics, "upload",
                            get_queue_size(broker', UploadQueues[u_idx]))
    /\ u_task' = [pc |-> "running", body |-> broker'.held["upload"][1].msg.body,
                  result |-> FALSE, found |-> {}]
    /\ u_pc' = "join"
    /\ UNCHANGED <<store, u_idx, u_abandoned>>
    /\ UploadUnchangedValidate

\* the thread of the current message takes a step
Upload_worker_step ==
    /\ u_pc = "join"
    /\ UploadAlive(u_task)
    /\ \E n \in upload_snapshot(u_task, store) :
        /\ u_task' = n.task
        /\ store' = n.store
    /\ UNCHANGED <<broker, metrics, u_pc, u_idx, u_abandoned>>
    /\ UploadUnchangedValidate

\* a thread left behind by a timeout keeps running; once finished it is gone
Upload_abandoned_step ==
    /\ \E i \in 1 .. Len(u_abandoned) :
        \E n \in upload_snapshot(u_abandoned[i], store) :
            /\ store' = n.store
            /\ u_abandoned' =
                  IF UploadAlive(n.task)
                  THEN [u_abandoned EXCEPT ![i] = n.task]
                  ELSE SubSeq(u_abandoned, 1, i - 1) \o
                       SubSeq(u_abandoned, i + 1, Len(u_abandoned))
    /\ UNCHANGED <<broker, metrics, u_pc, u_idx, u_task>>
    /\ UploadUnchangedValidate

\* The broker calls of process_snapshot once thread.join returned.
UploadOutcomeMutantPublishOnTimeout(b, alive, success, body) ==
    IF alive
    THEN produce(reject(b, "upload", TRUE), "upload", body)
    ELSE IF success
    THEN produce(ack(b, "upload"), "upload", body)
    ELSE produce(reject(b, "upload", FALSE), "upload-failed", body)

UploadOutcomeMutantAckOnFailure(b, alive, success, body) ==
    IF alive
    THEN reject(b, "upload", TRUE)
    ELSE IF success
    THEN produce(ack(b, "upload"), "upload", body)
    ELSE produce(ack(b, "upload"), "upload-failed", body)

UploadOutcomeMutantNoPublish(b, alive, success, body) ==
    IF alive
    THEN reject(b, "upload", TRUE)
    ELSE IF success
    THEN ack(b, "upload")
    ELSE produce(reject(b, "upload", FALSE), "upload-failed", body)

UploadOutcome(b, alive, success, body) ==
    IF alive
    THEN reject(b, "upload", TRUE)
    ELSE IF success
    THEN produce(ack(b, "upload"), "upload", body)
    ELSE produce(reject(b, "upload", FALSE), "upload-failed", body)

\* process_snapshot after the join: the thread is still alive at the
\* deadline. The message is requeued, the thread is left running.
Upload_process_timeout ==
    /\ u_pc = "join"
    /\ UploadAlive(u_task)
    /\ Len(u_abandoned) < MaxAbandoned
    /\ metrics' = inc_failure(metrics, "upload")
    /\ broker' = close(UploadOutcome(broker, TRUE, u_task.result,
                                     UploadDelivery.msg.body), "upload")
    /\ u_abandoned' = Append(u_abandoned, u_task)
    /\ u_task' = NoTask
    /\ u_pc' = "poll"
    /\ u_idx' = 1
    /\ UNCHANGED store
    /\ UploadUnchangedValidate

\* process_snapshot after the join: the thread finished and reported success.
Upload_process_success ==
    /\ u_pc = "join"
    /\ u_task.pc = "done"
    /\ u_task.result
    /\ metrics' = inc_success(metrics, "upload")
    /\ broker' = close(UploadOutcome(broker, FALSE, TRUE,
                                     UploadDelivery.msg.body), "upload")
    /\ u_task' = NoTask
    /\ u_pc' = "poll"
    /\ u_idx' = 1
    /\ UNCHANGED <<store, u_abandoned>>
    /\ UploadUnchangedValidate

\* process_snapshot after the join: the thread finished with result False,
\* or died of an exception (result keeps its initial False).
Upload_process_failure ==
    /\ u_pc = "join"
    /\ u_task.pc \in {"done", "dead"}
    /\ ~u_task.result
    /\ metrics' = inc_failure(metrics, "upload")
    /\ broker' = close(UploadOutcome(broker, FALSE, FALSE,
                                     UploadDelivery.msg.body), "upload")
    /\ u_task' = NoTask
    /\ u_pc' = "poll"
    /\ u_idx' = 1
    /\ UNCHANGED <<store, u_abandoned>>
    /\ UploadUnchangedValidate

\* process_snapshot after the join: the thread has ended and the ack or
\* reject that follows the metric raises (the call to the broker fails). The
\* except clause of main logs it; the with-block closes the connection and,
\* no break having run, the for-loop goes on with the next queue.
Upload_process_exception ==
    /\ u_pc = "join"
    /\ u_task.pc \in {"done", "dead"}
    /\ metrics' = IF u_task.result THEN inc_success(metrics, "upload")
                  ELSE inc_failure(metrics, "upload")
    /\ broker' = close(broker, "upload")
    /\ u_task' = NoTask
    /\ u_pc' = "poll"
    /\ u_idx' = IF u_idx = Len(UploadQueues) THEN 1 ELSE u_idx + 1
    /\ UNCHANGED <<store, u_abandoned>>
    /\ UploadUnchangedValidate

\* process_snapshot after the join: the thread has ended, the ack or the
\* reject went through and the produce that follows it raises. Nothing is
\* published; the except clause of main logs it and the for-loop goes on
\* with the next queue. (A process that ends between the two calls leaves
\* the broker in the same state.)
Upload_produce_exception ==
    /\ u_pc = "join"
    /\ u_task.pc \in {"done", "dead"}
    /\ metrics' = IF u_task.result THEN inc_success(metrics, "upload")
                  ELSE inc_failure(metrics, "upload")
    /\ broker' = close(IF u_task.result THEN ack(broker, "upload")
                       ELSE reject(broker, "upload", FALSE), "upload")
    /\ u_task' = NoTask
    /\ u_pc' = "poll"
    /\ u_idx' = IF u_idx = Len(UploadQueues) THEN 1 ELSE u_idx + 1
    /\ UNCHANGED <<store, u_abandoned>>
    /\ UploadUnchangedValidate

\* os.getenv("FOREST_VERSION", "unknown"): unset, or the deployed version
ForestVersionEnv == {"unknown", "0.30.0"}

Init ==
    /\ broker = setup
    /\ store = StoreInit
    /\ metrics = MetricsInit
    /\ u_pc = "poll"
    /\ u_idx = 1
    /\ u_task = NoTask
    /\ u_abandoned = <<>>
    /\ v_pc = "poll"
    /\ v_task = NoTask
    /\ v_abandoned = <<>>
    /\ v_metadata = "unbound"
    /\ lotus = [daemon |-> FALSE]
    /\ env \in [FOREST_VERSION : ForestVersionEnv]
    /\ chain = 0
    /\ cmp = NoTask
    /\ bld = NoTask
    /\ fs = {}
    /\ readers = [r \in CursorReaders |-> "idle"]

Next ==
    \/ Build_produce
    \/ Upload_main_empty
    \/ Upload_main_consume
    \/ Upload_worker_step
    \/ Upload_abandoned_step
    \/ Upload_process_timeout
    \/ Upload_process_success
    \/ Upload_process_failure

Spec == Init /\ [][Next]_vars

\* The Upload worker starts with messages already queued: an envelope of
\* some variant for each of the snapshots 1 .. MaxQueued, published in that
\* order.
RECURSIVE QueuedBroker(_, _)
QueuedBroker(folders, n) ==
    IF n = 0 THEN setup
    ELSE produce(QueuedBroker(folders, n - 1), BuildExchange(folders[n]),
                 to_json(NewEnvelope(n, folders[n])))

InitUploadQueued ==
    /\ \E folders \in [1 .. MaxQueued -> Folders] :
          broker = QueuedBroker(folders, MaxQueued)
    /\ store = StoreInit
    /\ metrics = MetricsInit
    /\ u_pc = "poll"
    /\ u_idx = 1
    /\ u_task = NoTask
    /\ u_abandoned = <<>>
    /\ v_pc = "poll"
    /\ v_task = NoTask
    /\ v_abandoned = <<>>
    /\ v_metadata = "unbound"
    /\ lotus = [daemon |-> FALSE]
    /\ env \in [FOREST_VERSION : {"unknown"}]
    /\ chain = 0
    /\ cmp = NoTask
    /\ bld = NoTask
    /\ fs = {}
    /\ readers = [r \in CursorReaders |-> "idle"]

NextUploadQueued ==
    \/ Upload_main_empty
    \/ Upload_main_consume
    \/ Upload_worker_step
    \/ Upload_abandoned_step
    \/ Upload_process_timeout
    \/ Upload_process_success
    \/ Upload_process_failure

\* The scheduling of the Upload worker: its loop goes on, a thread.join
\* returns (the thread has ended or the deadline has passed), and a thread
\* left behind by a timeout comes to its end.
FairUpload ==
    /\ WF_vars(Upload_main_empty)
    /\ WF_vars(Upload_main_consume)
    /\ WF_vars(Upload_worker_step \/ Upload_process_timeout)
    /\ WF_vars(Upload_abandoned_step)
    /\ WF_vars(Upload_process_success)
    /\ WF_vars(Upload_process_failure)

SpecUploadFair == InitUploadQueued /\ [][NextUploadQueued]_vars /\ FairUpload

-----------------------------------------------------------------------------
(* Validate worker: validate_snapshots.py *)

\* the snapshot types validate_snapshot validates
ValidatedTypes == {"latest-v1", "latest-v2", "lite"}

\* test_height = ChainHead height - 1950
TestHeightOffset == 1950

\* heights the daemon may report as its chain head
NodeHeights == {TestHeightOffset + 10, TestHeightOffset + 11}

\* what ChainGetBlock may return as Height: a height, or None (the empty set)
BlockHeights == {{}, {10}, {11}}

ValidateDelivery == broker.held["validate"][1]

ValidateAlive(t) == t.pc \notin {"done", "dead", "none"}

\* snapshot_type of validate_snapshot: the folder of the build path
SnapshotType(md) == md.build_path.folder

\* The thread process_snapshot starts on the deserialized envelope. forest,
\* lotus, started, restarted and exit record what the run went through.
NewValidateTask(md) ==
    [ pc |-> "validate_snapshot", md |-> md, result |-> FALSE, ret |-> FALSE,
      forest |-> "not_run", lotus |-> "not_run",
      started |-> FALSE, restarted |-> FALSE, exit |-> "none" ]

\* lotus_validate leaves its try block with return value ret; the finally
\* clause (the restart) is still to run.
LotusReturn(t, ret, exit) ==
    [t EXCEPT !.pc = "restart", !.ret = ret, !.exit = exit]

\* The comparison of lotus_validate: the block of the chosen CID must be at
\* test_height.
HeightMismatch(test_height, block_height) == block_height # {test_height}

\* Which snapshot types validate_snapshot runs the two validations on.
NeedsValidation(snapshot_type) == snapshot_type \in ValidatedTypes

\* lotus_validate's finally clause: lotus.restart().
FinallyRestartMutantOnSuccessOnly(t, lt) ==
    IF t.ret
    THEN [task |-> [t EXCEPT !.restarted = TRUE], lotus |-> [lt EXCEPT !.daemon = FALSE]]
    ELSE [task |-> t, lotus |-> lt]

FinallyRestart(t, lt) ==
    [task |-> [t EXCEPT !.restarted = TRUE], lotus |-> [lt EXCEPT !.daemon = FALSE]]

\* lotus_validate from "wait-api" to the height comparison: the calls that
\* only read from the daemon and the reference nodes. The set of ways the
\* try block is left. An exception in any call is caught and returns False.
lotus_probe(t) ==
    LET \* ChainGetBlock(cid) and the comparison with test_height
        get_block(test_height) ==
            { IF bh = {} THEN LotusReturn(t, FALSE, "no_height")
              ELSE IF HeightMismatch(test_height, bh)
                   THEN LotusReturn(t, FALSE, "mismatch")
                   ELSE LotusReturn(t, TRUE, "ok")
              : bh \in BlockHeights }
            \cup { LotusReturn(t, FALSE, "exception") }
        \* ChainGetTipSetByHeight on FULL_RPC_NODE, then on BACKUP_RPC_NODE
        get_tipset(test_height) ==
            get_block(test_height)
            \cup { LotusReturn(t, FALSE, "no_cid"), LotusReturn(t, FALSE, "exception") }
        \* ChainHead of the daemon
        chain_head ==
            UNION { get_tipset(h - TestHeightOffset) : h \in NodeHeights }
            \cup { LotusReturn(t, FALSE, "exception") }
        \* timeout 1h lotus sync wait
        sync_wait ==
            chain_head
            \cup { LotusReturn(t, FALSE, "sync_wait"), LotusReturn(t, FALSE, "exception") }
    IN  \* timeout 10m lotus wait-api
        sync_wait
        \cup { LotusReturn(t, FALSE, "wait_api"), LotusReturn(t, FALSE, "exception") }

\* One step of the thread running validate_snapshot: the set of successors
\* [task, lotus] (lotus is the daemon container).
validate_snapshot(t, lt, forest_version) ==
    LET same(x) == [task |-> x, lotus |-> lt]
    IN
    IF t.pc = "validate_snapshot" THEN
        IF NeedsValidation(SnapshotType(t.md)) THEN
            LET v == [t EXCEPT !.md.forest_version = forest_version,
                               !.md.lotus_version = forest_version]
            IN  { \* forest_validate fails (non-zero exit, timeout, exception)
                  same([v EXCEPT !.md.success = FALSE, !.forest = "failed",
                                 !.exit = "forest", !.pc = "done", !.result = FALSE]),
                  \* it passes; lotus_validate finds the container
                  same([v EXCEPT !.forest = "passed", !.pc = "exec_daemon"]),
                  \* it passes; docker.from_env or containers.get raises,
                  \* outside the try block: the thread ends with the exception
                  same([v EXCEPT !.forest = "passed", !.exit = "docker",
                                 !.pc = "dead"]) }
        ELSE
            \* any other snapshot type: nothing runs, the result is True
            { same([t EXCEPT !.pc = "done", !.result = TRUE]) }
    ELSE IF t.pc = "exec_daemon" THEN
        \* lotus daemon --import-snapshot, detached
        { [task |-> [t EXCEPT !.pc = "probe", !.started = TRUE],
           lotus |-> [lt EXCEPT !.daemon = TRUE]],
          same(LotusReturn(t, FALSE, "exception")) }
    ELSE IF t.pc = "probe" THEN
        { same(x) : x \in lotus_probe(t) }
    ELSE
        \* pc = "restart": the finally clause, then the rest of validate_snapshot
        LET r == FinallyRestart(t, lt)
        IN  { [task |-> [r.task EXCEPT !.pc = "done",
                                       !.lotus = IF t.ret THEN "passed" ELSE "failed",
                                       !.md.success = t.ret,
                                       !.result = t.ret],
               lotus |-> r.lotus] }

\* update_metadata: write <build_path>.metadata.json and hand it to
\* r2_upload_artifact. No path of the worker calls it.
update_metadata(st, md) ==
    r2_upload_artifact(st, md.build_path, "metadata",
                       [kind |-> "metadata", success |-> md.success,
                        validation_date |-> md.validation_date])

ValidateUnchangedUpload ==
    UNCHANGED <<u_pc, u_idx, u_task, u_abandoned, env, chain, cmp, bld, fs, readers>>

\* The Upload worker handles a snapshot successfully: the three puts of
\* upload_snapshot, then the envelope is published to upload. Here the two
\* sidecar puts succeed as well; Spec covers the runs in which they fail.
Upload_produce ==
    /\ broker.count["upload"] < MaxMsgs
    /\ \E folder \in Folders :
        LET body == to_json(NewEnvelope(broker.count["upload"] + 1, folder))
        IN  \E n \in upload_snapshot([pc |-> "running", body |-> body,
                                      result |-> FALSE, found |-> {}], store) :
                /\ n.task.pc = "done"
                /\ n.task.result
                /\ \A kind \in StoreKinds : n.store[<<SnapOf(body), kind>>] # Absent
                /\ store' = n.store
                /\ broker' = produce(broker, "upload", body)
    /\ UNCHANGED <<metrics, v_pc, v_task, v_abandoned, v_metadata, lotus>>
    /\ ValidateUnchangedUpload

\* main: a message is fetched from upload; set_total; from_json;
\* process_snapshot starts the thread.
Validate_main_consume ==
    /\ v_pc = "poll"
    /\ broker.main["upload"] # <<>>
    /\ IsEnvelope(Head(broker.main["upload"]).body)
    /\ broker' = consume(broker, "validate", "upload", FALSE)
    /\ metrics' = set_total(metrics, "validate", get_queue_size(broker', "upload"))
    /\ v_task' = NewValidateTask(from_json(broker'.held["validate"][1].msg.body))
    /\ v_metadata' = "bound"
    /\ v_pc' = "join"
    /\ UNCHANGED <<store, v_abandoned, lotus>>
    /\ ValidateUnchangedUpload

\* main: the message fetched from upload is no envelope and from_json
\* raises. The except clause formats metadata.build_information.build_path:
\* with metadata bound by an earlier message it logs that path, the
\* with-block closes the connection and, no break having run, the else of
\* the for-loop sleeps; with metadata never bound the clause itself raises
\* UnboundLocalError, which leaves main after the with-block has closed.
Validate_main_malformed ==
    /\ v_pc = "poll"
    /\ broker.main["upload"] # <<>>
    /\ ~IsEnvelope(Head(broker.main["upload"]).body)
    /\ LET b == consume(broker, "validate", "upload", FALSE)
       IN  /\ metrics' = set_total(metrics, "validate", get_queue_size(b, "upload"))
           /\ broker' = close(b, "validate")
    /\ v_pc' = IF v_metadata = "bound" THEN "sleep" ELSE "crashed"
    /\ UNCHANGED <<store, v_task, v_abandoned, v_metadata, lotus>>
    /\ ValidateUnchangedUpload

\* main: the sleep of the for-else is over, the while-loop goes on
Validate_main_sleep ==
    /\ v_pc = "sleep"
    /\ v_pc' = "poll"
    /\ UNCHANGED <<broker, store, metrics, v_task, v_abandoned, v_metadata, lotus>>
    /\ ValidateUnchangedUpload

\* the thread of the current message takes a step
Validate_worker_step ==
    /\ v_pc = "join"
    /\ ValidateAlive(v_task)
    /\ \E n \in validate_snapshot(v_task, lotus, env.FOREST_VERSION) :
        /\ v_task' = n.task
        /\ lotus' = n.lotus
    /\ UNCHANGED <<broker, store, metrics, v_pc, v_abandoned, v_metadata>>
    /\ ValidateUnchangedUpload

\* a thread left behind by a timeout keeps running; once finished it is gone
Validate_abandoned_step ==
    /\ \E i \in 1 .. Len(v_abandoned) :
        \E n \in validate_snapshot(v_abandoned[i], lotus, env.FOREST_VERSION) :
            /\ lotus' = n.lotus
            /\ v_abandoned' =
                  IF ValidateAlive(n.task)
                  THEN [v_abandoned EXCEPT ![i] = n.task]
                  ELSE SubSeq(v_abandoned, 1, i - 1) \o
                       SubSeq(v_abandoned, i + 1, Len(v_abandoned))
    /\ UNCHANGED <<broker, store, metrics, v_pc, v_task, v_metadata>>
    /\ ValidateUnchangedUpload

\* The broker calls of process_snapshot once thread.join returned; md is the
\* metadata object the thread worked on.
ValidateOutcomeMutantFailedOnTimeout(b, alive, success, md) ==
    IF alive
    THEN reject(produce(b, "validate-failed", to_json(md)), "validate", TRUE)
    ELSE IF success
    THEN ack(produce(b, "validate", to_json(md)), "validate")
    ELSE reject(produce(b, "validate-failed", to_json(md)), "validate", FALSE)

ValidateOutcomeMutantRequeueOnFailure(b, alive, success, md) ==
    IF alive
    THEN reject(b, "validate", TRUE)
    ELSE IF success
    THEN ack(produce(b, "validate", to_json(md)), "validate")
    ELSE reject(produce(b, "validate-failed", to_json(md)), "validate", TRUE)

ValidateOutcome(b, alive, success, md) ==
    IF alive
    THEN reject(b, "validate", TRUE)
    ELSE IF success
    THEN ack(produce(b, "validate", to_json(md)), "validate")
    ELSE reject(produce(b, "validate-failed", to_json(md)), "validate", FALSE)

\* process_snapshot after the join: the thread is still alive at the
\* deadline. The message is requeued, the thread is left running.
Validate_process_timeout ==
    /\ v_pc = "join"
    /\ ValidateAlive(v_task)
    /\ Len(v_abandoned) < MaxAbandoned
    /\ metrics' = inc_failure(metrics, "validate")
    /\ broker' = close(ValidateOutcome(broker, TRUE, v_task.result, v_task.md),
                       "validate")
    /\ v_abandoned' = Append(v_abandoned, v_task)
    /\ v_task' = NoTask
    /\ v_pc' = "poll"
    /\ UNCHANGED <<store, v_metadata, lotus>>
    /\ ValidateUnchangedUpload

\* process_snapshot after the join: the thread finished and reported success.
Validate_process_success ==
    /\ v_pc = "join"
    /\ broker.held["validate"] # <<>>
    /\ v_task.pc = "done"
    /\ v_task.result
    /\ metrics' = inc_success(metrics, "validate")
    /\ broker' = close(ValidateOutcome(broker, FALSE, TRUE, v_task.md), "validate")
    /\ v_task' = NoTask
    /\ v_pc' = "poll"
    /\ UNCHANGED <<store, v_abandoned, v_metadata, lotus>>
    /\ ValidateUnchangedUpload

\* process_snapshot after the join: the thread finished with result False,
\* or died of an exception (result keeps its initial False).
Validate_process_failure ==
    /\ v_pc = "join"
    /\ broker.held["validate"] # <<>>
    /\ v_task.pc \in {"done", "dead"}
    /\ ~v_task.result
    /\ metrics' = inc_failure(metrics, "validate")
    /\ broker' = close(ValidateOutcome(broker, FALSE, FALSE, v_task.md), "validate")
    /\ v_task' = NoTask
    /\ v_pc' = "poll"
    /\ UNCHANGED <<store, v_abandoned, v_metadata, lotus>>
    /\ ValidateUnchangedUpload

\* The connection of the with-block is lost while main waits in
\* thread.join (no heartbeat is served there): the broker returns the
\* unacked delivery to upload. The worker keeps its delivery tag.
Validate_connection_lost ==
    /\ v_pc = "join"
    /\ broker.held["validate"] # <<>>
    /\ broker.count["validate"] + broker.count["validate-failed"] < MaxMsgs
    /\ broker' = close(broker, "validate")
    /\ UNCHANGED <<store, metrics, v_pc, v_task, v_abandoned, v_metadata, lotus>>
    /\ ValidateUnchangedUpload

\* process_snapshot after the join, the connection having been lost: when
\* the client has seen the loss, _ensure_open of produce connects anew and
\* the outcome is published on the new channel; the ack or reject that
\* follows carries the tag of the old channel, which settles nothing. When
\* the client has not seen it, the publish raises and main's except clause
\* logs. Either way the with-block ends and main polls again.
Validate_process_reconnect ==
    /\ v_pc = "join"
    /\ broker.held["validate"] = <<>>
    /\ v_task.pc \in {"done", "dead"}
    /\ \E seen \in BOOLEAN :
        /\ broker' = IF ~seen THEN broker
                     ELSE produce(broker,
                                  IF v_task.result THEN "validate"
                                  ELSE "validate-failed",
                                  to_json(v_task.md))
        /\ metrics' = IF ~seen THEN metrics
                      ELSE IF v_task.result THEN inc_success(metrics, "validate")
                      ELSE inc_failure(metrics, "validate")
    /\ v_task' = NoTask
    /\ v_pc' = "poll"
    /\ UNCHANGED <<store, v_abandoned, v_metadata, lotus>>
    /\ ValidateUnchangedUpload

NextValidate ==
    \/ Upload_produce
    \/ Validate_main_consume
    \/ Validate_worker_step
    \/ Validate_abandoned_step
    \/ Validate_process_timeout
    \/ Validate_process_success
    \/ Validate_process_failure

SpecValidate == Init /\ [][NextValidate]_vars

\* The Validate worker with a connection that can be lost during the join;
\* its threads end within the timeout here.
NextValidateFaults ==
    \/ Upload_produce
    \/ Validate_main_consume
    \/ Validate_worker_step
    \/ Validate_process_success
    \/ Validate_process_failure
    \/ Validate_connection_lost
    \/ Validate_process_reconnect

SpecValidateFaults == Init /\ [][NextValidateFaults]_vars

-----------------------------------------------------------------------------
(* The pipeline behind Build: the Upload worker and the Validate worker run
   side by side on the envelopes Build has queued, and every thread ends
   within its deadline *)

\* the envelopes Build has queued when the two workers start
MaxPiped == 1

InitPipeline ==
    /\ \E folders \in [1 .. MaxPiped -> {"lite", "diff"}] :
          broker = QueuedBroker(folders, MaxPiped)
    /\ store = StoreInit
    /\ metrics = MetricsInit
    /\ u_pc = "poll"
    /\ u_idx = 1
    /\ u_task = NoTask
    /\ u_abandoned = <<>>
    /\ v_pc = "poll"
    /\ v_task = NoTask
    /\ v_abandoned = <<>>
    /\ v_metadata = "unbound"
    /\ lotus = [daemon |-> FALSE]
    /\ env \in [FOREST_VERSION : {"unknown"}]
    /\ chain = 0
    /\ cmp = NoTask
    /\ bld = NoTask
    /\ fs = {}
    /\ readers = [r \in CursorReaders |-> "idle"]

NextPipeline ==
    \/ Upload_main_empty
    \/ Upload_main_consume
    \/ Upload_worker_step
    \/ Upload_process_success
    \/ Upload_process_failure
    \/ Validate_main_consume
    \/ Validate_worker_step
    \/ Validate_process_success
    \/ Validate_process_failure

\* The scheduling of the two workers: each main loop goes on polling, a
\* running thread takes its next step and a join that can return does.
FairPipeline ==
    /\ WF_vars(Upload_main_empty)
    /\ WF_vars(Upload_main_consume)
    /\ WF_vars(Upload_worker_step)
    /\ WF_vars(Upload_process_success)
    /\ WF_vars(Upload_process_failure)
    /\ WF_vars(Validate_main_consume)
    /\ WF_vars(Validate_worker_step)
    /\ WF_vars(Validate_process_success)
    /\ WF_vars(Validate_process_failure)

SpecPipelineFair == InitPipeline /\ [][NextPipeline]_vars /\ FairPipeline

-----------------------------------------------------------------------------
(* Cursor recovery of Compute and Build: compute_state.py, build_snapshots.py *)

\* the head queues the historic Build reads: wait_for_epoch_compute reads
\* compute, get_historic_epoch reads snapshot and snapshot-diff
BuildCursorStreams == {"compute", "snapshot", "snapshot-diff"}

HeadUnchanged ==
    UNCHANGED <<store, metrics, u_pc, u_idx, u_task, u_abandoned,
                v_pc, v_task, v_abandoned, v_metadata, lotus, env, chain, cmp, bld, fs>>

\* compute_state: a batch is computed and its end epoch published to compute
\* (epochs are counted in batches here)
Compute_produce ==
    /\ readers["compute"] = "idle"
    /\ broker.count["compute"] < MaxPublish
    /\ broker' = produce(broker, "compute", [epoch |-> broker.count["compute"] + 1])
    /\ UNCHANGED readers
    /\ HeadUnchanged

\* main of compute_state.py: consume(COMPUTE, latest=True) inside the with-block
Compute_main_consume ==
    /\ readers["compute"] = "idle"
    /\ broker' = consume(broker, "compute", "compute", TRUE)
    /\ readers' = [readers EXCEPT !["compute"] = "open"]
    /\ HeadUnchanged

\* main of compute_state.py: the with-block ends, the connection is closed
Compute_main_exit ==
    /\ readers["compute"] = "open"
    /\ broker' = close(broker, "compute")
    /\ readers' = [readers EXCEPT !["compute"] = "idle"]
    /\ HeadUnchanged

\* wait_for_epoch_compute and get_historic_epoch: consume(queue, latest=True)
\* inside the with-block
Build_cursor_consume ==
    /\ readers["build"] = "idle"
    /\ \E S \in BuildCursorStreams :
          broker' = consume(broker, "build", S, TRUE)
    /\ readers' = [readers EXCEPT !["build"] = "open"]
    /\ HeadUnchanged

\* wait_for_epoch_compute and get_historic_epoch: the with-block ends
Build_cursor_exit ==
    /\ readers["build"] = "open"
    /\ broker' = close(broker, "build")
    /\ readers' = [readers EXCEPT !["build"] = "idle"]
    /\ HeadUnchanged

NextHead ==
    \/ Compute_produce
    \/ Compute_main_consume
    \/ Compute_main_exit
    \/ Build_produce
    \/ Build_cursor_consume
    \/ Build_cursor_exit

SpecHead == Init /\ [][NextHead]_vars

-----------------------------------------------------------------------------
(* Compute worker: compute_state.py *)

\* COMPUTE_BATCH_SIZE: os.getenv("COMPUTE_BATCH_SIZE", "100")
DefaultComputeBatchSize == 100

ComputeBatchSizes == {DefaultComputeBatchSize \div 2, DefaultComputeBatchSize}

\* DEFAULT_START_EPOCH: os.getenv("DEFAULT_START_EPOCH", "0"); 150 is a
\* multiple of the batch size 50 only
DefaultStartEpochs == {0, 150}

\* the chain head epochs get_current_epoch may report
ChainHeads == {200, 300}

\* the cursor an earlier run left in compute and compute-head, if any
\* (the empty set: a fresh broker); 150 was published under batch size 50
RecoveredCursors == {{}, {100}, {150}}

\* str(epoch) as produce sends it, and int(computed_epoch) on the way back
EpochBody(epoch) == [epoch |-> epoch]

EpochOf(body) == body.epoch

\* int(computed_epoch) accepts the text of a number and raises ValueError on
\* any other body
IsEpoch(body) == DOMAIN body = {"epoch"}

\* The broker a run of Compute starts on.
ComputeBroker(cursor) ==
    IF cursor = {} THEN setup
    ELSE produce(setup, "compute", EpochBody(CHOOSE c \in cursor : TRUE))

\* (historic_start_epoch // COMPUTE_BATCH_SIZE) * COMPUTE_BATCH_SIZE
AlignDownMutantIdentity(epoch, size) == epoch
AlignDown(epoch, size) == (epoch \div size) * size

\* main before the loop: historic_start_epoch = DEFAULT_START_EPOCH.
\* seeded and disturbed record how the run began and whether a tool call
\* has failed or the process was restarted so far, notify the last
\* slack_notify of compute_state.
ComputeStart(seeded, disturbed) ==
    [ pc |-> "top", historic_start_epoch |-> env.DEFAULT_START_EPOCH,
      current_epoch |-> 0, epoch |-> 0,
      seeded |-> seeded, disturbed |-> disturbed, notify |-> "none" ]

ComputeUnchanged ==
    UNCHANGED <<store, u_pc, u_idx, u_task, u_abandoned,
                v_pc, v_task, v_abandoned, v_metadata, lotus, env, bld, fs>>

InitCompute ==
    /\ env \in [FOREST_VERSION : {"unknown"},
                DEFAULT_START_EPOCH : DefaultStartEpochs,
                COMPUTE_BATCH_SIZE : ComputeBatchSizes]
    /\ \E cursor \in RecoveredCursors :
        /\ broker = ComputeBroker(cursor)
        /\ cmp = ComputeStart(cursor # {}, FALSE)
    /\ chain \in ChainHeads
    /\ store = StoreInit
    /\ metrics = MetricsInit
    /\ u_pc = "poll"
    /\ u_idx = 1
    /\ u_task = NoTask
    /\ u_abandoned = <<>>
    /\ v_pc = "poll"
    /\ v_task = NoTask
    /\ v_abandoned = <<>>
    /\ v_metadata = "unbound"
    /\ lotus = [daemon |-> FALSE]
    /\ bld = NoTask
    /\ fs = {}
    /\ readers = [r \in CursorReaders |-> "idle"]

\* the chain grows
Chain_advance ==
    /\ \E h \in ChainHeads : h > chain /\ chain' = h
    /\ ComputeUnchanged
    /\ UNCHANGED <<broker, metrics, cmp, readers>>

\* main, top of the while-loop: get_current_epoch, then
\* consume(COMPUTE, latest=True) inside the with-block
Compute_main_top ==
    /\ cmp.pc = "top"
    /\ broker' = consume(broker, "compute", "compute", TRUE)
    /\ cmp' = [cmp EXCEPT !.pc = "cursor", !.current_epoch = chain]
    /\ readers' = [readers EXCEPT !["compute"] = "open"]
    /\ ComputeUnchanged
    /\ UNCHANGED <<metrics, chain>>

\* main: the with-block ends; the cursor is taken from the message if there
\* was one and aligned; set_total; the for-loop is entered if there is work
Compute_main_cursor ==
    /\ cmp.pc = "cursor"
    /\ IF broker.held["compute"] = <<>> THEN TRUE
       ELSE IsEpoch(broker.held["compute"][1].msg.body)
    /\ LET size == env.COMPUTE_BATCH_SIZE
           start == AlignDown(IF broker.held["compute"] = <<>>
                              THEN cmp.historic_start_epoch
                              ELSE EpochOf(broker.held["compute"][1].msg.body),
                              size)
       IN  /\ cmp' = [cmp EXCEPT !.historic_start_epoch = start,
                                 !.epoch = start,
                                 !.pc = IF cmp.current_epoch > start
                                        THEN "loop" ELSE "top"]
           /\ metrics' = set_total(metrics, "compute",
                                   (cmp.current_epoch - start) \div size)
    /\ broker' = close(broker, "compute")
    /\ readers' = [readers EXCEPT !["compute"] = "idle"]
    /\ ComputeUnchanged
    /\ UNCHANGED chain

\* main: the with-block ends; the body at the head of compute is not the
\* text of a number, int() raises ValueError outside every try and main ends
Compute_main_malformed ==
    /\ cmp.pc = "cursor"
    /\ broker.held["compute"] # <<>>
    /\ ~IsEpoch(broker.held["compute"][1].msg.body)
    /\ broker' = close(broker, "compute")
    /\ readers' = [readers EXCEPT !["compute"] = "idle"]
    /\ cmp' = [cmp EXCEPT !.pc = "crashed"]
    /\ ComputeUnchanged
    /\ UNCHANGED <<metrics, chain>>

\* the next value of range(historic_start_epoch, current_epoch, size)
ComputeLoopNext(c) ==
    IF c.epoch + env.COMPUTE_BATCH_SIZE < c.current_epoch
    THEN [c EXCEPT !.epoch = @ + env.COMPUTE_BATCH_SIZE]
    ELSE [c EXCEPT !.pc = "top"]

\* compute_state(epoch, rabbit) in the for-loop of main: the batch run
\* succeeds and the cursor epoch + size is published
Compute_state_success ==
    /\ cmp.pc = "loop"
    /\ broker.count["compute"] < MaxCursors
    /\ broker' = produce(broker, "compute",
                         EpochBody(cmp.epoch + env.COMPUTE_BATCH_SIZE))
    /\ metrics' = inc_success(metrics, "compute")
    /\ cmp' = ComputeLoopNext(cmp)
    /\ ComputeUnchanged
    /\ UNCHANGED <<chain, readers>>

\* compute_state: the batch run fails and the epoch-by-epoch runs succeed;
\* nothing is published, the for-loop goes on
Compute_state_fallback ==
    /\ cmp.pc = "loop"
    /\ cmp' = [ComputeLoopNext(cmp) EXCEPT !.disturbed = TRUE]
    /\ ComputeUnchanged
    /\ UNCHANGED <<broker, metrics, chain, readers>>

\* compute_state: an epoch-by-epoch run fails too; the failure is counted in
\* the loop and in the except clause and notified, main sleeps 600 seconds
\* and leaves the for-loop
Compute_state_failure ==
    /\ cmp.pc = "loop"
    /\ metrics' = inc_failure(inc_failure(metrics, "compute"), "compute")
    /\ cmp' = [cmp EXCEPT !.pc = "top", !.disturbed = TRUE,
                          !.notify = "failed"]
    /\ ComputeUnchanged
    /\ UNCHANGED <<broker, chain, readers>>

\* the worker process is restarted: its connection is gone, main starts over
Compute_restart ==
    /\ cmp.pc # "top" \/ cmp.historic_start_epoch # env.DEFAULT_START_EPOCH
    /\ broker' = close(broker, "compute")
    /\ readers' = [readers EXCEPT !["compute"] = "idle"]
    /\ cmp' = ComputeStart(cmp.seeded, TRUE)
    /\ ComputeUnchanged
    /\ UNCHANGED <<metrics, chain>>

NextCompute ==
    \/ Chain_advance
    \/ Compute_main_top
    \/ Compute_main_cursor
    \/ Compute_state_success
    \/ Compute_state_fallback
    \/ Compute_state_failure
    \/ Compute_restart
    \/ Build_cursor_consume
    \/ Build_cursor_exit

SpecCompute == InitCompute /\ [][NextCompute]_vars

-----------------------------------------------------------------------------
(* Build worker: build_snapshots.py, forest_helpers.py *)

\* SNAPSHOT_CONFIGS["lite"]["depth"]
LiteDepth == 30000

\* SNAPSHOT_CONFIGS["diff"]["depth"]
DiffDepth == 3000

\* build_latest_snapshots: 2 * 60 * 60 / SECONDS_PER_EPOCH epochs
LatestInterval == 240

\* What a start of Build finds: the chain head, the epochs of the envelopes
\* in snapshot-head, snapshot-diff-head and snapshot-latest-head (the empty
\* set: none) and the snapshot files on disk.
BuildScenarios ==
    { [chain |-> 31000, lite |-> {}, diff |-> {}, latest |-> {}, files |-> {}],
      [chain |-> 31000, lite |-> {}, diff |-> {}, latest |-> {30760},
       files |-> {[folder |-> "diff", snap |-> 30000]}],
      [chain |-> 95000, lite |-> {60000}, diff |-> {87000}, latest |-> {},
       files |-> {[folder |-> "lite", snap |-> 90000]}],
      [chain |-> 95000, lite |-> {61000}, diff |-> {88500}, latest |-> {94900},
       files |-> {[folder |-> "diff", snap |-> 93000]}] }

BuildDefaultStartEpochs == {0, 4500}

\* the chain heads get_current_epoch returns while Build runs
BuildChainHeads == {31000, 31300, 95000, 95300}

\* the folder of a variant's snapshots (its basename is the snapshot type)
BuildFolder(phase) ==
    CASE phase = "lite" -> "lite"
      [] phase = "diff" -> "diff"
      [] phase = "latest" -> "latest-v2"

\* build_snapshot: the file the export is to write; snap stands for the
\* height_<epoch> part of the name
SnapshotPath(folder, epoch) == [folder |-> folder, snap |-> epoch]

\* f"height_{epoch}" in name: the decimal digits of epoch begin those of the
\* height in the name
HeightInName(epoch, height) ==
    \/ epoch = height
    \/ epoch > 0 /\ \E k \in 1 .. 6 : height \div (10 ^ k) = epoch

\* _resolve_snapshot_path: some file of the folder whose name holds
\* height_<epoch>, in the order os.listdir happens to give
resolve_snapshot_path(files, folder, epoch) ==
    {f \in files : f.folder = folder /\ HeightInName(epoch, f.snap)}

\* SnapshotMetadata as build_snapshot fills it
BuildMetadata(path, epoch) ==
    [ epoch |-> epoch,
      build_path |-> path,
      success |-> FALSE,
      forest_version |-> "unknown",
      lotus_version |-> "unknown",
      validation_date |-> "None" ]

\* the exchanges build_snapshot publishes a snapshot type to
BuildRoutingMutantSnapshot(snapshot_type) == {"snapshot"}
build_routing(snapshot_type) ==
    IF snapshot_type \in {"latest-v1", "latest-v2"} THEN {"snapshot-latest"}
    ELSE IF snapshot_type = "lite" THEN {"snapshot"}
    ELSE IF snapshot_type = "diff" THEN {"snapshot-diff"}
    ELSE {}

\* the broker with an envelope of the given epoch left by an earlier run
SeedEnvelope(b, S, folder, epochs) ==
    IF epochs = {} THEN b
    ELSE LET e == CHOOSE x \in epochs : TRUE
         IN  produce(b, S, to_json(BuildMetadata(SnapshotPath(folder, e), e)))

\* get_historic_epoch and the read of build_latest_snapshots: the epoch of
\* the envelope at the head, or the default when the head queue is empty
HeadEpochMutantDefault(b, S, default) == default
head_epoch(b, S, default) ==
    LET r == consume(b, "build", S, TRUE)
    IN  IF r.held["build"] = <<>> THEN default
        ELSE from_json(r.held["build"][1].msg.body).epoch

\* the read of a head queue finds it empty or finds an envelope there;
\* from_json raises on any other body
HeadParses(b, S) ==
    LET r == consume(b, "build", S, TRUE)
    IN  IF r.held["build"] = <<>> THEN TRUE
        ELSE IsEnvelope(r.held["build"][1].msg.body)

\* the module-level start of build_snapshots.py; built records whether a
\* build of the running pass has succeeded
BuildStart(mode) ==
    [ pc |-> mode, phase |-> "none", epoch |-> 0, current_epoch |-> 0,
      lite_historic_epoch |-> 0, diff_historic_epoch |-> 0,
      restart |-> FALSE, exit |-> "none", retries |-> 0, failures |-> 0,
      notify |-> "none", built |-> FALSE ]

BuildUnchanged ==
    UNCHANGED <<store, u_pc, u_idx, u_task, u_abandoned,
                v_pc, v_task, v_abandoned, v_metadata, lotus, env, chain, cmp, readers>>

InitBuild ==
    /\ env \in [FOREST_VERSION : {"unknown"},
                DEFAULT_START_EPOCH : BuildDefaultStartEpochs,
                WAIT_FOR_COMPUTATION : BOOLEAN,
                BUILD_LATEST_SNAPSHOTS : BOOLEAN]
    /\ \E sc \in BuildScenarios :
        /\ chain = sc.chain
        /\ fs = sc.files
        /\ broker = SeedEnvelope(
                      SeedEnvelope(
                        SeedEnvelope(setup, "snapshot", "lite", sc.lite),
                        "snapshot-diff", "diff", sc.diff),
                      "snapshot-latest", "latest-v2", sc.latest)
    /\ bld = BuildStart(IF env.BUILD_LATEST_SNAPSHOTS THEN "latest" ELSE "historic")
    /\ cmp = NoTask
    /\ store = StoreInit
    /\ metrics = MetricsInit
    /\ u_pc = "poll"
    /\ u_idx = 1
    /\ u_task = NoTask
    /\ u_abandoned = <<>>
    /\ v_pc = "poll"
    /\ v_task = NoTask
    /\ v_abandoned = <<>>
    /\ v_metadata = "unbound"
    /\ lotus = [daemon |-> FALSE]
    /\ readers = [r \in CursorReaders |-> "idle"]

\* the step of a variant's loop
Depth(phase) == IF phase = "lite" THEN LiteDepth ELSE DiffDepth

\* the aligned cursor a variant's loop starts after
HistoricEpoch(b, phase) ==
    IF phase = "lite" THEN b.lite_historic_epoch ELSE b.diff_historic_epoch

\* the body of a for-loop at one epoch: wait for Compute if asked to
AtEpoch(b, phase, epoch) ==
    [b EXCEPT !.phase = phase, !.epoch = epoch,
              !.pc = IF env.WAIT_FOR_COMPUTATION THEN "wait" ELSE "build"]

\* the end of one pass of build_historic_snapshots: the sleep of 24 hours
\* when restart is not set, the top of the while at once when it is
EndPass(b) ==
    [b EXCEPT !.pc = IF b.restart THEN "historic" ELSE "day",
              !.phase = "none", !.epoch = 0]

\* the diff loop: entered when more than one depth lies between its cursor
\* and the chain head
EnterDiff(b) ==
    IF b.current_epoch - b.diff_historic_epoch > DiffDepth
    THEN AtEpoch(b, "diff", b.diff_historic_epoch + DiffDepth)
    ELSE EndPass(b)

\* the lite loop, the diff loop after it
EnterLite(b) ==
    IF b.current_epoch - b.lite_historic_epoch > LiteDepth
    THEN AtEpoch(b, "lite", b.lite_historic_epoch + LiteDepth)
    ELSE EnterDiff(b)

\* what follows the loop of a variant
AfterLoop(b) == IF b.phase = "lite" THEN EnterDiff(b) ELSE EndPass(b)

\* the caller of build_snapshot takes its result: the next epoch of the
\* range, or restart = True and break; build_latest_snapshots ignores it
BuildReturn(b, success) ==
    IF b.phase = "latest"
    THEN [b EXCEPT !.pc = "sleep", !.phase = "none", !.epoch = 0]
    ELSE IF ~success THEN AfterLoop([b EXCEPT !.restart = TRUE])
    ELSE IF b.epoch + Depth(b.phase) < b.current_epoch
         THEN AtEpoch(b, b.phase, b.epoch + Depth(b.phase))
         ELSE AfterLoop(b)

\* build_historic_snapshots, top of the while: the chain head and both
\* cursors are read and aligned, set_total, and the first loop is entered
Build_historic_top ==
    /\ bld.pc = "historic"
    /\ HeadParses(broker, "snapshot")
    /\ HeadParses(broker, "snapshot-diff")
    /\ LET lite == head_epoch(broker, "snapshot", env.DEFAULT_START_EPOCH)
           b1 == close(consume(broker, "build", "snapshot", TRUE), "build")
           diff == head_epoch(b1, "snapshot-diff", env.DEFAULT_START_EPOCH)
           b2 == close(consume(b1, "build", "snapshot-diff", TRUE), "build")
           lh == AlignDown(lite, LiteDepth)
           dh == AlignDown(diff, DiffDepth)
       IN  /\ broker' = b2
           /\ metrics' = set_total(metrics, "build",
                            ((chain - dh) \div DiffDepth)
                               + (chain - (lh \div LiteDepth)))
           /\ bld' = EnterLite([bld EXCEPT !.restart = FALSE,
                                           !.built = FALSE,
                                           !.current_epoch = chain,
                                           !.lite_historic_epoch = lh,
                                           !.diff_historic_epoch = dh])
    /\ UNCHANGED fs
    /\ BuildUnchanged

\* the test of wait_for_epoch_compute: a cursor was delivered from
\* compute-head and its epoch lies above the one to build
EpochComputedMutantAtLeast(b, epoch) ==
    LET r == consume(b, "build", "compute", TRUE)
    IN  IF r.held["build"] = <<>> THEN FALSE
        ELSE EpochOf(r.held["build"][1].msg.body) >= epoch
EpochComputed(b, epoch) ==
    LET r == consume(b, "build", "compute", TRUE)
    IN  IF r.held["build"] = <<>> THEN FALSE
        ELSE EpochOf(r.held["build"][1].msg.body) > epoch

\* wait_for_epoch_compute returns: the head of compute holds an epoch above
\* the one to build (otherwise it sleeps and reads again)
Build_wait_for_epoch_compute ==
    /\ bld.pc = "wait"
    /\ EpochComputed(broker, bld.epoch)
    /\ broker' = close(consume(broker, "build", "compute", TRUE), "build")
    /\ bld' = [bld EXCEPT !.pc = "build"]
    /\ UNCHANGED <<metrics, fs>>
    /\ BuildUnchanged

\* build_snapshot up to the while: (snapshot, True) at once when the target
\* exists, the export loop otherwise
SnapshotBeginMutantSpawn(b, files) == [b EXCEPT !.pc = "export", !.retries = 0]
SnapshotBegin(b, files) ==
    IF SnapshotPath(BuildFolder(b.phase), b.epoch) \in files
    THEN BuildReturn(b, TRUE)
    ELSE [b EXCEPT !.pc = "export", !.retries = 0]

Build_snapshot_begin ==
    /\ bld.pc = "build"
    /\ bld' = SnapshotBegin(bld, fs)
    /\ UNCHANGED <<broker, metrics, fs>>
    /\ BuildUnchanged

\* how the export subprocess can end: non-zero with the line 'Another chain
\* export job is still in progress' in its output, non-zero without it, zero
\* with the target missing, zero with the target written
ExportExits == {"busy", "nonzero", "missing", "zero"}

\* the while of build_snapshot: the start is notified, the export is spawned
\* and proc.wait() returns
Build_export_exit ==
    /\ bld.pc = "export"
    /\ \E exit \in ExportExits :
        /\ exit = "busy" => bld.retries < MaxRetries
        /\ exit \in {"nonzero", "missing"} => bld.failures < MaxFailures
        /\ bld' = [bld EXCEPT !.pc = "exited", !.exit = exit, !.notify = "info"]
        /\ fs' = IF exit = "zero"
                 THEN fs \cup {SnapshotPath(BuildFolder(bld.phase), bld.epoch)}
                 ELSE fs
    /\ UNCHANGED <<broker, metrics>>
    /\ BuildUnchanged

\* the export exited non-zero and its output holds the line: sleep
\* QUEUE_WAIT_TIMEOUT and continue the while
ExportBusyMutantFail(b) ==
    BuildReturn([b EXCEPT !.exit = "none", !.notify = "failed"], FALSE)
ExportBusy(b) ==
    [b EXCEPT !.pc = "export", !.exit = "none", !.retries = @ + 1]

Build_export_busy ==
    /\ bld.pc = "exited"
    /\ bld.exit = "busy"
    /\ bld' = ExportBusy(bld)
    /\ UNCHANGED <<broker, metrics, fs>>
    /\ BuildUnchanged

\* the export exited non-zero without that line, or zero with the target
\* missing: inc_failure, the failure is notified, ('', False)
ExportFailedMutantRetry(b) == [b EXCEPT !.pc = "export", !.exit = "none"]
ExportFailed(b) ==
    BuildReturn([b EXCEPT !.exit = "none", !.notify = "failed",
                          !.failures = @ + 1], FALSE)

Build_export_failure ==
    /\ bld.pc = "exited"
    /\ bld.exit \in {"nonzero", "missing"}
    /\ metrics' = inc_failure(metrics, "build")
    /\ bld' = ExportFailed(bld)
    /\ UNCHANGED <<broker, fs>>
    /\ BuildUnchanged

\* an exception inside the try before the export has ended (the
\* notification, the spawn): inc_failure, ('', False), no notification
Build_export_exception ==
    /\ bld.pc = "export"
    /\ bld.failures < MaxFailures
    /\ metrics' = inc_failure(metrics, "build")
    /\ bld' = BuildReturn([bld EXCEPT !.failures = @ + 1], FALSE)
    /\ UNCHANGED <<broker, fs>>
    /\ BuildUnchanged

\* the export wrote the target but gather_archive_metadata raises:
\* inc_success, then inc_failure, ('', False), nothing published
Build_harvest_exception ==
    /\ bld.pc = "exited"
    /\ bld.exit = "zero"
    /\ bld.failures < MaxFailures
    /\ metrics' = inc_failure(inc_success(metrics, "build"), "build")
    /\ bld' = BuildReturn([bld EXCEPT !.exit = "none", !.failures = @ + 1],
                          FALSE)
    /\ UNCHANGED <<broker, fs>>
    /\ BuildUnchanged

\* the build path of the envelope: the file _resolve_snapshot_path finds,
\* the target when it finds none
BuildPath(files, folder, epoch) ==
    IF resolve_snapshot_path(files, folder, epoch) = {}
    THEN {SnapshotPath(folder, epoch)}
    ELSE resolve_snapshot_path(files, folder, epoch)

\* the publish of build_snapshot to the exchanges of the snapshot type
publish_build(b, exchanges, body) ==
    IF exchanges = {} THEN b
    ELSE produce(b, CHOOSE x \in exchanges : TRUE, body)

\* the export exited zero and the target is there: inc_success, the
\* envelope is filled and published by snapshot type, success is notified,
\* (snapshot, True)
Build_export_success ==
    /\ bld.pc = "exited"
    /\ bld.exit = "zero"
    /\ \E path \in BuildPath(fs, BuildFolder(bld.phase), bld.epoch) :
          broker' = publish_build(broker, build_routing(BuildFolder(bld.phase)),
                        to_json(BuildMetadata(path, bld.epoch)))
    /\ metrics' = inc_success(metrics, "build")
    /\ bld' = BuildReturn([bld EXCEPT !.exit = "none", !.notify = "success",
                                      !.built = TRUE], TRUE)
    /\ UNCHANGED fs
    /\ BuildUnchanged

\* the sleep of 24 hours is over: back to the top of the while
Build_historic_sleep ==
    /\ bld.pc = "day"
    /\ bld' = [bld EXCEPT !.pc = "historic"]
    /\ UNCHANGED <<broker, metrics, fs>>
    /\ BuildUnchanged

\* build_latest_snapshots: two hours or more of epochs lie between the chain
\* head and the epoch of the last latest snapshot
LatestDueMutantAlways(head, previous) == TRUE
LatestDue(head, previous) == head - previous >= LatestInterval

\* build_latest_snapshots, one pass of the while: the chain head and the
\* epoch at the head of snapshot-latest (0 when it is empty) are read; a
\* latest-v2 snapshot of the chain head is built when it is due, otherwise
\* the pass goes to its sleep
Build_latest_top ==
    /\ bld.pc = "latest"
    /\ HeadParses(broker, "snapshot-latest")
    /\ broker' = close(consume(broker, "build", "snapshot-latest", TRUE), "build")
    /\ bld' = IF LatestDue(chain, head_epoch(broker, "snapshot-latest", 0))
              THEN [bld EXCEPT !.pc = "build", !.phase = "latest", !.epoch = chain]
              ELSE [bld EXCEPT !.pc = "sleep"]
    /\ UNCHANGED <<metrics, fs>>
    /\ BuildUnchanged

\* the head queues a pass reads before it builds anything
CursorQueues(pc) ==
    IF pc = "latest" THEN {"snapshot-latest"} ELSE {"snapshot", "snapshot-diff"}

\* get_historic_epoch or build_latest_snapshots reads a head whose body is
\* no envelope: from_json raises after the with-block has closed, nothing
\* in the loops catches it and the try of __main__ logs it, after which the
\* process ends
Build_cursor_malformed ==
    /\ bld.pc \in {"historic", "latest"}
    /\ \E S \in CursorQueues(bld.pc) : ~HeadParses(broker, S)
    /\ bld' = [bld EXCEPT !.pc = "ended"]
    /\ UNCHANGED <<broker, metrics, fs>>
    /\ BuildUnchanged

\* build_latest_snapshots: the sleep of BUILD_DELAY ends
Build_latest_sleep ==
    /\ bld.pc = "sleep"
    /\ bld' = [bld EXCEPT !.pc = "latest"]
    /\ UNCHANGED <<broker, metrics, fs>>
    /\ BuildUnchanged

\* Compute, seen from Build: the cursor of the last batch below the chain
\* head is published to compute
Compute_caught_up ==
    /\ \A i \in 1 .. Len(broker.head["compute"]) :
          EpochOf(broker.head["compute"][i].body) < AlignDown(chain, DefaultComputeBatchSize)
    /\ broker' = produce(broker, "compute",
                         EpochBody(AlignDown(chain, DefaultComputeBatchSize)))
    /\ UNCHANGED <<metrics, bld, fs>>
    /\ BuildUnchanged

\* Compute, seen from Build: on its way up Compute publishes the cursor that
\* equals the epoch Build is waiting for
Compute_reaches_epoch ==
    /\ bld.pc = "wait"
    /\ \A i \in 1 .. Len(broker.head["compute"]) :
          EpochOf(broker.head["compute"][i].body) < bld.epoch
    /\ broker' = produce(broker, "compute", EpochBody(bld.epoch))
    /\ UNCHANGED <<metrics, bld, fs>>
    /\ BuildUnchanged

\* the chain grows while Build runs
Build_chain_advance ==
    /\ \E h \in BuildChainHeads :
          h > chain /\ h - chain <= MaxChainGrowth /\ chain' = h
    /\ UNCHANGED <<broker, store, metrics, u_pc, u_idx, u_task, u_abandoned,
                   v_pc, v_task, v_abandoned, v_metadata, lotus, env, cmp, bld, fs, readers>>

NextBuild ==
    \/ Build_historic_top
    \/ Build_historic_sleep
    \/ Build_wait_for_epoch_compute
    \/ Build_snapshot_begin
    \/ Build_export_exit
    \/ Build_export_busy
    \/ Build_export_failure
    \/ Build_export_exception
    \/ Build_harvest_exception
    \/ Build_export_success
    \/ Build_latest_top
    \/ Build_latest_sleep
    \/ Compute_caught_up
    \/ Compute_reaches_epoch
    \/ Build_chain_advance

SpecBuild == InitBuild /\ [][NextBuild]_vars

-----------------------------------------------------------------------------
(* The backfill: a run of Compute or a run of Build *)

InitBackfill == InitCompute \/ InitBuild

NextBackfill ==
    \/ cmp.pc # "none" /\ NextCompute
    \/ bld.pc # "none" /\ NextBuild

SpecBackfill == InitBackfill /\ [][NextBackfill]_vars

-----------------------------------------------------------------------------
(* The workers under faulty input: messages that are no envelope, cursors
   that are no number, and calls to the broker that fail *)

\* what Validate finds queued in upload when it starts: envelopes of lite
\* snapshots and bodies that are no envelope
QueuedKinds == {"lite", "malformed"}

RECURSIVE QueuedForValidate(_, _)
QueuedForValidate(kinds, n) ==
    IF n = 0 THEN setup
    ELSE produce(QueuedForValidate(kinds, n - 1), "upload",
                 IF kinds[n] = "malformed" THEN MalformedBody
                 ELSE to_json(NewEnvelope(n, kinds[n])))

\* a broker whose head queue S-head holds a body that cannot be parsed (the
\* main queue S has been drained)
MalformedHead(S) ==
    [setup EXCEPT !.head[S] = <<[id |-> 1, body |-> MalformedBody]>>,
                  !.count[S] = 1]

\* One worker runs, on the input that is hard for it.
InitFaults ==
    /\ env \in [FOREST_VERSION : {"unknown"},
                DEFAULT_START_EPOCH : DefaultStartEpochs,
                COMPUTE_BATCH_SIZE : {DefaultComputeBatchSize},
                WAIT_FOR_COMPUTATION : {FALSE},
                BUILD_LATEST_SNAPSHOTS : BOOLEAN]
    /\ \E w \in Workers :
        /\ u_pc = IF w = "upload" THEN "poll" ELSE "none"
        /\ v_pc = IF w = "validate" THEN "poll" ELSE "none"
        /\ cmp = IF w = "compute" THEN ComputeStart(TRUE, FALSE) ELSE NoTask
        /\ bld = IF w # "build" THEN NoTask
                 ELSE BuildStart(IF env.BUILD_LATEST_SNAPSHOTS
                                 THEN "latest" ELSE "historic")
        /\ chain = IF w = "compute" THEN CHOOSE h \in ChainHeads : TRUE
                   ELSE IF w = "build" THEN CHOOSE h \in BuildChainHeads : TRUE
                   ELSE 0
        /\ \/ /\ w = "upload"
              /\ \E folders \in [1 .. MaxQueued -> {"lite", "diff"}] :
                    broker = QueuedBroker(folders, MaxQueued)
           \/ /\ w = "validate"
              /\ \E kinds \in [1 .. MaxQueued -> QueuedKinds] :
                    broker = QueuedForValidate(kinds, MaxQueued)
           \/ /\ w = "compute"
              /\ broker = MalformedHead("compute")
           \/ /\ w = "build"
              /\ \E S \in CursorQueues(bld.pc) : broker = MalformedHead(S)
    /\ store = StoreInit
    /\ metrics = MetricsInit
    /\ u_idx = 1
    /\ u_task = NoTask
    /\ u_abandoned = <<>>
    /\ v_task = NoTask
    /\ v_abandoned = <<>>
    /\ v_metadata = "unbound"
    /\ lotus = [daemon |-> FALSE]
    /\ fs = {}
    /\ readers = [r \in CursorReaders |-> "idle"]

\* The threads of the Upload worker end within the timeout here; Spec and
\* SpecUploadFair cover its timeouts.
NextFaults ==
    \/ Upload_main_empty
    \/ Upload_main_consume
    \/ Upload_worker_step
    \/ Upload_process_success
    \/ Upload_process_failure
    \/ Upload_process_exception
    \/ Validate_main_consume
    \/ Validate_main_malformed
    \/ Validate_main_sleep
    \/ Validate_worker_step
    \/ Validate_abandoned_step
    \/ Validate_process_timeout
    \/ Validate_process_success
    \/ Validate_process_failure
    \/ Compute_main_top
    \/ Compute_main_malformed
    \/ Build_cursor_malformed

SpecFaults == InitFaults /\ [][NextFaults]_vars

-----------------------------------------------------------------------------
(* The Upload worker when calls to the broker fail: the queued messages of
   SpecUploadFair, threads that end within the timeout, and a produce that
   raises after the ack or the reject *)

NextUploadFaults ==
    \/ Upload_main_empty
    \/ Upload_main_consume
    \/ Upload_worker_step
    \/ Upload_process_success
    \/ Upload_process_failure
    \/ Upload_process_exception
    \/ Upload_produce_exception

SpecUploadFaults == InitUploadQueued /\ [][NextUploadFaults]_vars

-----------------------------------------------------------------------------
(* Claims about the Upload worker, checked under Spec *)

\* the bodies of the messages a queue holds
Bodies(q) == {q[i].body : i \in 1 .. Len(q)}

\* a step in which process_snapshot ends for a thread that finished in time
UploadFinishedStep ==
    u_pc = "join" /\ u_pc' = "poll" /\ ~UploadAlive(u_task)

\* a step in which process_snapshot ends for a thread still alive at the deadline
UploadTimedOutStep ==
    u_pc = "join" /\ u_pc' = "poll" /\ UploadAlive(u_task)

\* the envelope was published to exchange S in this step, once
PublishedTo(S, body) ==
    /\ Len(broker'.main[S]) = Len(broker.main[S]) + 1
    /\ SubSeq(broker'.main[S], 1, Len(broker.main[S])) = broker.main[S]
    /\ broker'.main[S][Len(broker'.main[S])].body = body

\* nothing was published to exchange S in this step
NothingPublishedTo(S) ==
    /\ broker'.main[S] = broker.main[S]
    /\ broker'.head[S] = broker.head[S]
    /\ broker'.count[S] = broker.count[S]

\* C1: a message whose upload thread finishes before the deadline gets
\* exactly one outcome. Reported success: the message is acked (it is in no
\* queue and no DLQ afterwards) and its envelope is published to upload,
\* nothing to upload-failed. Reported failure, or an exception in the thread:
\* the message is rejected with requeue=false (it is dead-lettered, not
\* requeued) and its envelope is published to upload-failed, nothing to upload.
C1_UploadOutcome ==
    [][UploadFinishedStep =>
        LET d == UploadDelivery
        IN  /\ broker'.held["upload"] = <<>>
            /\ broker'.main[d.q] = broker.main[d.q]
            /\ IF u_task.pc = "done" /\ u_task.result
               THEN /\ broker'.dlq = broker.dlq
                    /\ PublishedTo("upload", d.msg.body)
                    /\ NothingPublishedTo("upload-failed")
               ELSE /\ broker'.dlq = [broker.dlq EXCEPT ![d.q] = Append(@, d.msg)]
                    /\ PublishedTo("upload-failed", d.msg.body)
                    /\ NothingPublishedTo("upload")]_vars

\* C1 witness: a message was acked after a successful upload and its
\* envelope is on upload
C1_Witness ==
    /\ Built = 1
    /\ u_pc = "poll"
    /\ Len(broker.main["upload"]) = 1
    /\ broker.main["upload-failed"] = <<>>
    /\ \A S \in Streams : broker.dlq[S] = <<>>
    /\ \A i \in 1 .. Len(UploadQueues) : broker.main[UploadQueues[i]] = <<>>
    /\ metrics["upload"].success = 1

\* C2: when the upload thread is still running at the deadline, the message
\* is rejected with requeue=true: the failure counter goes up by one, nothing
\* is published to upload or upload-failed, the message is not dead-lettered
\* and it is again at the front of the queue it came from.
C2_UploadTimeout ==
    [][UploadTimedOutStep =>
        LET d == UploadDelivery
        IN  /\ metrics'["upload"].failure = metrics["upload"].failure + 1
            /\ metrics'["upload"].success = metrics["upload"].success
            /\ NothingPublishedTo("upload")
            /\ NothingPublishedTo("upload-failed")
            /\ broker'.dlq = broker.dlq
            /\ broker'.held["upload"] = <<>>
            /\ broker'.main[d.q] # <<>>
            /\ Head(broker'.main[d.q]) = d.msg]_vars

\* C2 witness: a delivery timed out; its thread is left running, the
\* failure counter is 1 and the message is back in its queue
C2_Witness ==
    /\ u_pc = "poll"
    /\ u_abandoned # <<>>
    /\ metrics["upload"].failure = 1
    /\ \E i \in 1 .. Len(UploadQueues) :
          u_abandoned[1].body \in Bodies(broker.main[UploadQueues[i]])
    /\ broker.main["upload"] = <<>>
    /\ broker.main["upload-failed"] = <<>>

-----------------------------------------------------------------------------
(* Claims about the Validate worker, checked under SpecValidate *)

\* a step in which process_snapshot ends for a thread that finished in time
ValidateFinishedStep ==
    v_pc = "join" /\ v_pc' = "poll" /\ ~ValidateAlive(v_task)

\* a step in which process_snapshot ends for a thread still alive at the deadline
ValidateTimedOutStep ==
    v_pc = "join" /\ v_pc' = "poll" /\ ValidateAlive(v_task)

\* a step in which process_snapshot reports success: publish to validate, ack
ValidateSuccessStep ==
    ValidateFinishedStep /\ v_task.pc = "done" /\ v_task.result

\* the message of the current delivery was dead-lettered in this step
ValidateDeadLettered ==
    /\ broker'.held["validate"] = <<>>
    /\ broker'.main["upload"] = broker.main["upload"]
    /\ broker'.dlq = [broker.dlq EXCEPT !["upload"] = Append(@, ValidateDelivery.msg)]

\* the message of the current delivery is back at the front of upload
ValidateRequeued ==
    /\ broker'.held["validate"] = <<>>
    /\ broker'.dlq = broker.dlq
    /\ broker'.main["upload"] # <<>>
    /\ Head(broker'.main["upload"]) = ValidateDelivery.msg

\* C3: success is reported (publish to validate, ack) only if the
\* primary-tool validation ran and passed and, for lite, latest-v1 and
\* latest-v2, the secondary-daemon validation ran and passed; for every
\* variant, diff included, the primary-tool validation has run.
C3_SuccessOnlyIfValidated ==
    [][ValidateSuccessStep =>
        /\ v_task.forest = "passed"
        /\ (SnapshotType(v_task.md) \in {"lite", "latest-v1", "latest-v2"}
                => v_task.lotus = "passed")]_vars

\* C3: a diff envelope reached validate and its message is acked, and no
\* validation ran on it
C3_Witness ==
    /\ v_pc = "poll"
    /\ \E body \in Bodies(broker.main["validate"]) :
          body["Build path"].folder = "diff"
    /\ broker.main["upload"] = <<>>
    /\ broker.dlq["upload"] = <<>>

\* C4: every envelope on validate has success = true and has
\* forest_version, lotus_version and validation_date set, whatever the
\* variant; every envelope on validate-failed has success = false.
C4_PublishedEnvelopes ==
    /\ \A body \in Bodies(broker.main["validate"]) :
          /\ body["Success"] = TRUE
          /\ body["Forest version"] = env.FOREST_VERSION
          /\ body["Lotus version"] = env.FOREST_VERSION
          /\ body["Validation date"] # "None"
    /\ \A body \in Bodies(broker.main["validate-failed"]) :
          body["Success"] = FALSE

\* C4: an envelope of a validated variant is on validate with success =
\* true and validation_date still unset
C4_Witness ==
    \E body \in Bodies(broker.main["validate"]) :
        /\ body["Build path"].folder = "lite"
        /\ body["Success"] = TRUE
        /\ body["Validation date"] = "None"

\* C5: when success is reported, the metadata sidecar in the object store
\* under the snapshot's key is the updated one (validation record
\* populated) by the time the message is acked.
C5_MetadataReuploaded ==
    [][ValidateSuccessStep =>
        LET c == store'[<<v_task.md.build_path.snap, "metadata">>]
        IN  /\ c.content.kind = "metadata"
            /\ c.content.success = TRUE]_vars

\* C5: a validated message is acked, its envelope is on validate, and the
\* sidecar in the store is still the one the Upload worker wrote
C5_Witness ==
    /\ v_pc = "poll"
    /\ \E body \in Bodies(broker.main["validate"]) :
          /\ body["Build path"].folder = "latest-v1"
          /\ store[<<SnapOf(body), "metadata">>].content = UploadMetadataContent

\* C6 as stated: on failure, and on a timeout, the envelope is published
\* to validate-failed and the message is rejected.
C6_FailedOrTimeoutPublishes ==
    [][(ValidateTimedOutStep \/ (ValidateFinishedStep /\ ~v_task.result)) =>
        /\ PublishedTo("validate-failed", to_json(v_task.md))
        /\ (ValidateDeadLettered \/ ValidateRequeued)]_vars

\* C6: on failure the envelope is published to validate-failed, nothing to
\* validate, and the message is rejected with requeue=false (dead-lettered);
\* on a timeout nothing is published to validate or validate-failed, the
\* failure counter goes up by one and the message is rejected with
\* requeue=true (back at the front of upload).
C6_FailurePublishesTimeoutRequeues ==
    [][/\ (ValidateFinishedStep /\ ~v_task.result) =>
            /\ PublishedTo("validate-failed", to_json(v_task.md))
            /\ NothingPublishedTo("validate")
            /\ ValidateDeadLettered
       /\ ValidateTimedOutStep =>
            /\ NothingPublishedTo("validate-failed")
            /\ NothingPublishedTo("validate")
            /\ metrics'["validate"].failure = metrics["validate"].failure + 1
            /\ ValidateRequeued]_vars

\* C6 witness: a validation timed out after the daemon was started: the
\* thread is left running, the message is back on upload, nothing was
\* published
C6_Witness ==
    /\ v_pc = "poll"
    /\ v_abandoned # <<>>
    /\ v_abandoned[1].started
    /\ broker.main["upload"] # <<>>
    /\ broker.main["validate-failed"] = <<>>
    /\ broker.main["validate"] = <<>>
    /\ broker.dlq["upload"] = <<>>
    /\ metrics["validate"].failure = 1

\* the outcome of a validation that ended on a height mismatch
MismatchOutcome ==
    /\ PublishedTo("validate-failed", to_json(v_task.md))
    /\ to_json(v_task.md)["Success"] = FALSE
    /\ NothingPublishedTo("validate")
    /\ ValidateDeadLettered
    /\ v_task.restarted

\* C7 as stated: whenever the daemon returned a block height different from
\* test_height, process_snapshot publishes the envelope to validate-failed
\* (never to validate) with success = false, rejects with requeue=false,
\* and the container was restarted before.
C7_MismatchAlwaysFails ==
    [][(v_pc = "join" /\ v_pc' = "poll" /\ v_task.exit = "mismatch")
            => MismatchOutcome]_vars

\* C7: when the daemon returned a block height different from test_height
\* and the validation thread finished before the deadline, the envelope is
\* published to validate-failed (never to validate) with success = false,
\* the message is rejected with requeue=false, and the container was
\* restarted before; on no step is an envelope of a mismatch published to
\* validate.
C7_MismatchFailsInTime ==
    [][/\ (ValidateFinishedStep /\ v_task.exit = "mismatch") => MismatchOutcome
       /\ (v_pc = "join" /\ v_pc' = "poll" /\ v_task.exit = "mismatch")
            => NothingPublishedTo("validate")]_vars

\* C7 witness: the thread of a lite snapshot finished on the height
\* mismatch, the container restarted; process_snapshot is about to publish
\* the envelope, whose success is false
C7_Witness ==
    /\ v_pc = "join"
    /\ v_task.pc = "done"
    /\ v_task.exit = "mismatch"
    /\ v_task.started
    /\ v_task.restarted
    /\ ~v_task.result
    /\ ~v_task.md.success
    /\ SnapshotType(v_task.md) = "lite"
    /\ broker.held["validate"] # <<>>

\* the abandoned threads without the i-th
WithoutThread(i) ==
    SubSeq(v_abandoned, 1, i - 1) \o SubSeq(v_abandoned, i + 1, Len(v_abandoned))

\* C8: a run of lotus_validate that started the daemon ends with the
\* restart of the container on every exit path: in the step in which such a
\* thread ends, be it the current one or one left behind by a timeout, the
\* finally clause has run and the container is restarted.
C8_RestartOnEveryExit ==
    [][/\ (v_pc = "join" /\ v_pc' = "join" /\ v_task.started
           /\ ValidateAlive(v_task) /\ ~ValidateAlive(v_task'))
            => (v_task.pc = "restart" /\ v_task'.restarted /\ ~lotus'.daemon)
       /\ \A i \in 1 .. Len(v_abandoned) :
            (v_abandoned[i].started /\ v_abandoned' = WithoutThread(i))
                => (v_abandoned[i].pc = "restart" /\ ~lotus'.daemon)
       /\ (v_task # NoTask /\ v_task.pc \in {"done", "dead"} /\ v_task.started)
            => v_task.restarted]_vars

\* C8 witness: a run that started the daemon and failed in the sync wait has
\* ended; the container was restarted
C8_Witness ==
    /\ v_pc = "join"
    /\ v_task.pc = "done"
    /\ v_task.started
    /\ v_task.exit = "sync_wait"
    /\ v_task.restarted
    /\ ~lotus.daemon

-----------------------------------------------------------------------------
(* Claims about the head queues, checked under SpecHead *)

\* no connection holds an unacked delivery of S-head
NoReadInFlight(S) ==
    \A c \in Conns :
        broker.held[c] = <<>> \/ ~broker.held[c][1].latest \/ broker.held[c][1].q # S

\* the message most recently published to exchange S
LastPublished(S) == broker.main[S][Len(broker.main[S])]

CursorConsumeStep(r) == readers[r] = "idle" /\ readers'[r] = "open"

\* a step in which the connection of reader r is closed after the fetch
CursorExitStep(r) == readers[r] = "open" /\ readers'[r] = "idle"

\* C10: a cursor read of Compute or Build fetches the front message of
\* S-head and touches no main queue: content and length of every main
\* queue, the DLQs and the publish counts are unchanged by the fetch and by
\* the close. The message is neither acked nor rejected: when the reader's
\* connection closes, S-head is non-empty again and holds that message or a
\* newer one.
C10_CursorReadNonDestructive ==
    [][\A r \in CursorReaders :
        /\ (CursorConsumeStep(r) \/ CursorExitStep(r)) =>
              /\ broker'.main = broker.main
              /\ broker'.dlq = broker.dlq
              /\ broker'.count = broker.count
        /\ (CursorConsumeStep(r) /\ broker'.held[r] # <<>>) =>
              LET d == broker'.held[r][1]
              IN  /\ d.latest
                  /\ broker.head[d.q] # <<>>
                  /\ d.msg = Head(broker.head[d.q])
                  /\ broker'.head[d.q] = Tail(broker.head[d.q])
        /\ (CursorConsumeStep(r) /\ broker'.held[r] = <<>>) =>
              broker'.head = broker.head
        /\ (CursorExitStep(r) /\ broker.held[r] # <<>>) =>
              LET d == broker.held[r][1]
              IN  /\ broker'.held[r] = <<>>
                  /\ broker'.head[d.q] # <<>>
                  /\ broker'.head[d.q][1].id >= d.msg.id]_vars

\* C10 witness: Compute has fetched the second compute message from
\* compute-head and holds it unacked; the main queue compute still has
\* both messages
C10_Witness ==
    /\ readers["compute"] = "open"
    /\ broker.held["compute"] # <<>>
    /\ broker.held["compute"][1].latest
    /\ broker.held["compute"][1].msg.id = 2
    /\ Len(broker.main["compute"]) = 2
    /\ broker.head["compute"] = <<>>

-----------------------------------------------------------------------------
(* Claims about Compute and the cursors, checked under SpecCompute *)

\* the head queues the pipeline declares
HeadStreams == {"compute", "snapshot", "snapshot-diff", "snapshot-latest",
                "upload", "validate"}

\* the epoch a message of stream S carries
HeadEpoch(S, m) == IF S = "compute" THEN EpochOf(m.body) ELSE m.body["Epoch"]

\* C11: for every head queue, the epoch of the message at the head never
\* decreases from one state of the run to the next, through successful and
\* failed iterations and restarts, with a chain head that never decreases.
C11_HeadEpochNonDecreasing ==
    [][\A S \in HeadStreams :
        (broker.head[S] # <<>> /\ broker'.head[S] # <<>>)
            => HeadEpoch(S, broker'.head[S][1]) >= HeadEpoch(S, broker.head[S][1])]_vars

\* C11: compute-head carries a cursor smaller than one Compute published
\* before
C11_Witness ==
    /\ broker.head["compute"] # <<>>
    /\ \E i \in 1 .. Len(broker.main["compute"]) :
          EpochOf(broker.main["compute"][i].body)
              > EpochOf(broker.head["compute"][1].body)

\* the smallest chain head: a chain at this epoch has not advanced
MinChainHead == CHOOSE h \in ChainHeads : \A g \in ChainHeads : h <= g

\* C19: from an empty broker, with DEFAULT_START_EPOCH = 0, a chain head H
\* that is a multiple of the batch size B and stays, and no tool failure,
\* what Compute has published to compute is at every moment B, 2B, ... in
\* increasing order, each once and none beyond H.
C19_CursorsEachOnce ==
    (/\ ~cmp.seeded
     /\ ~cmp.disturbed
     /\ env.DEFAULT_START_EPOCH = 0
     /\ chain = MinChainHead
     /\ MinChainHead % env.COMPUTE_BATCH_SIZE = 0)
        => /\ Len(broker.main["compute"]) <= chain \div env.COMPUTE_BATCH_SIZE
           /\ \A i \in 1 .. Len(broker.main["compute"]) :
                 EpochOf(broker.main["compute"][i].body) = i * env.COMPUTE_BATCH_SIZE

\* C19: in an undisturbed run from an empty broker Compute has published
\* B, 2B, ..., H and then B once more
C19_Witness ==
    /\ ~cmp.seeded
    /\ ~cmp.disturbed
    /\ env.DEFAULT_START_EPOCH = 0
    /\ chain = MinChainHead
    /\ LET B == env.COMPUTE_BATCH_SIZE
           n == chain \div B
           q == broker.main["compute"]
       IN  /\ Len(q) = n + 1
           /\ \A i \in 1 .. n : EpochOf(q[i].body) = i * B
           /\ EpochOf(q[n + 1].body) = B

-----------------------------------------------------------------------------
(* Claims about the alignment of cursors, checked under SpecBackfill *)

\* Compute publishes a cursor in this step
ComputePublishStep ==
    /\ cmp.pc # "none"
    /\ broker'.count["compute"] = broker.count["compute"] + 1

\* build_snapshot is entered for a variant in historic mode in this step
BuildStartStep(phase) ==
    /\ bld.pc # "none"
    /\ bld.pc # "build"
    /\ bld'.pc = "build"
    /\ bld'.phase = phase

\* C12: every cursor Compute publishes to compute is divisible by
\* COMPUTE_BATCH_SIZE, every epoch a lite build is started for in historic
\* mode is divisible by 30000 and every epoch a diff build is started for is
\* divisible by 3000, whatever the recovered cursor, DEFAULT_START_EPOCH and
\* chain head.
C12_AlignedEpochs ==
    [][/\ ComputePublishStep
            => EpochOf(LastPublished("compute").body)' % env.COMPUTE_BATCH_SIZE = 0
       /\ BuildStartStep("lite") => bld'.epoch % LiteDepth = 0
       /\ BuildStartStep("diff") => bld'.epoch % DiffDepth = 0]_vars

\* C12: Build recovered an unaligned lite cursor and is about to build the
\* lite snapshot of the next multiple of 30000
C12_Witness ==
    /\ bld.pc = "build"
    /\ bld.phase = "lite"
    /\ bld.epoch % LiteDepth = 0
    /\ broker.head["snapshot"] # <<>>
    /\ broker.head["snapshot"][1].body["Epoch"] % LiteDepth # 0

-----------------------------------------------------------------------------
(* Claims about build_snapshot, checked under SpecBuild *)

\* the file build_snapshot is to write in the current call
Target == SnapshotPath(BuildFolder(bld.phase), bld.epoch)

\* a call of build_snapshot returns in this step
BuildReturnStep ==
    /\ bld.pc \in {"build", "export", "exited"}
    /\ bld'.pc \notin {"export", "exited"}
    /\ (bld'.epoch # bld.epoch \/ bld'.phase # bld.phase)

\* the export subprocess is spawned in this step
SpawnStep == bld.pc = "export" /\ bld'.pc = "exited"

\* C13: when the target snapshot exists as build_snapshot is entered, the
\* call returns (path, true) in that step: no export is spawned, nothing is
\* published, counted or notified, no file is written, and the caller goes on
\* as after a success (restart is not set).
C13_ExistingTargetNotRebuilt ==
    [][(bld.pc = "build" /\ Target \in fs /\ bld' # bld)
          => /\ BuildReturnStep
             /\ ~SpawnStep
             /\ bld'.restart = bld.restart
             /\ bld'.notify = bld.notify
             /\ UNCHANGED <<broker, metrics, fs>>]_vars

\* C13: the lite snapshot of 90000 was on disk; Build passed its lite loop
\* without a build, a publish or a failure and is in its diff loop
C13_Witness ==
    /\ bld.pc # "none"
    /\ bld.phase = "diff"
    /\ bld.lite_historic_epoch = 60000
    /\ bld.current_epoch = 95000
    /\ SnapshotPath("lite", 90000) \in fs
    /\ ~bld.restart
    /\ metrics["build"].success = 0
    /\ metrics["build"].failure = 0
    /\ broker.count["snapshot"] = 1

\* the export of the current call has just ended with the given exits and
\* build_snapshot handles it in this step
ExportHandledStep(exits) ==
    /\ bld.pc = "exited"
    /\ bld.exit \in exits
    /\ bld' # bld

\* C14: when the export exits non-zero with 'Another chain export job is
\* still in progress' in its output, build_snapshot goes back to spawn the
\* export of the same epoch and variant, after the first such exit and after
\* every further one; the failure counter is not incremented, nothing is
\* published and the call does not return.
C14_BusyExportRetried ==
    [][ExportHandledStep({"busy"})
          => /\ bld'.pc = "export"
             /\ bld'.epoch = bld.epoch
             /\ bld'.phase = bld.phase
             /\ bld'.retries = bld.retries + 1
             /\ bld'.restart = bld.restart
             /\ bld'.notify # "failed"
             /\ ~BuildReturnStep
             /\ UNCHANGED <<broker, metrics, fs>>]_vars

\* C14: the export of one call has ended busy twice in a row and is to be
\* spawned a third time, with no failure counted
C14_Witness ==
    /\ bld.pc = "export"
    /\ bld.retries >= 2
    /\ bld.failures = 0
    /\ metrics["build"].failure = 0

\* C15: when the export exits non-zero without the line of C14, or exits
\* zero with the target missing, build_snapshot notifies the failure,
\* increments the failure counter once, returns failure (the historic caller
\* sets restart) and publishes nothing; the export is not spawned again in
\* that call.
C15_FailedExportReported ==
    [][ExportHandledStep({"nonzero", "missing"})
          => /\ BuildReturnStep
             /\ bld'.notify = "failed"
             /\ metrics'["build"].failure = metrics["build"].failure + 1
             /\ metrics'["build"].success = metrics["build"].success
             /\ bld.phase # "latest" => bld'.restart
             /\ UNCHANGED <<broker, fs>>]_vars

\* C15: an export of the diff loop has failed: the failure is notified and
\* counted, restart is set and nothing was published to snapshot-diff
C15_Witness ==
    /\ bld.pc = "historic"
    /\ bld.notify = "failed"
    /\ bld.restart
    /\ bld.failures = 1
    /\ metrics["build"].failure = 1
    /\ broker.main["snapshot-diff"] = broker.head["snapshot-diff"]

\* the streams that got a message in this step
PublishedStreams == {S \in Streams : broker'.count[S] # broker.count[S]}

\* a build ends successfully in this step: the export wrote the target and
\* the envelope is filled without an error
BuildSuccessStep ==
    /\ ExportHandledStep({"zero"})
    /\ metrics'["build"].failure = metrics["build"].failure

\* the exchange the variants are to go to
VariantExchange(variant) ==
    CASE variant = "lite" -> "snapshot"
      [] variant = "diff" -> "snapshot-diff"
      [] variant \in {"latest-v1", "latest-v2"} -> "snapshot-latest"

\* C16: a step of Build publishes either nothing or one envelope to one
\* exchange, the one of the variant being built (lite: snapshot, diff:
\* snapshot-diff, latest-v1 and latest-v2: snapshot-latest), and a build that
\* ends successfully does publish.
C16_OneExchangePerVariant ==
    [][/\ \A variant \in Folders :
            build_routing(variant) = {VariantExchange(variant)}
       /\ (bld.pc # "none" /\ bld' # bld)
            => /\ BuildSuccessStep => PublishedStreams # {}
               /\ PublishedStreams # {}
                    => /\ BuildSuccessStep
                       /\ PublishedStreams = {VariantExchange(BuildFolder(bld.phase))}
                       /\ \A S \in PublishedStreams :
                            /\ broker'.count[S] = broker.count[S] + 1
                            /\ LastPublished(S)'.body["Build path"].folder
                                  = BuildFolder(bld.phase)]_vars

\* C16: a latest-v2 snapshot was built at the chain head and its envelope is
\* the last one of snapshot-latest, with nothing built for the other variants
C16_Witness ==
    /\ bld.pc = "sleep"
    /\ bld.notify = "success"
    /\ broker.main["snapshot-latest"] # <<>>
    /\ LastPublished("snapshot-latest").body["Build path"].folder = "latest-v2"
    /\ LastPublished("snapshot-latest").body["Epoch"] = chain
    /\ broker.main["snapshot"] = broker.head["snapshot"]
    /\ broker.main["snapshot-diff"] = broker.head["snapshot-diff"]

\* the streams Build publishes envelopes to
BuildStreams == {"snapshot", "snapshot-diff", "snapshot-latest"}

\* the envelopes published to a stream so far
Published(S) == {broker.main[S][i].body : i \in 1 .. Len(broker.main[S])}

\* C17: in every envelope published to snapshot, snapshot-diff or
\* snapshot-latest the height in the file name of the build path is the epoch
\* of the envelope, whatever other snapshot files are in the folder.
C17_BuildPathNamesEpoch ==
    \A S \in BuildStreams : \A body \in Published(S) :
        body["Build path"].snap = body["Epoch"]

\* C17: with the diff snapshot of 30000 on disk, the envelope of the diff
\* snapshot of 3000 names the file of 30000 as its build path
C17_Witness ==
    \E body \in Published("snapshot-diff") :
        /\ body["Epoch"] = 3000
        /\ body["Build path"] = SnapshotPath("diff", 30000)

\* C18: when a pass of build_historic_snapshots starts with an envelope of
\* epoch c at the head of snapshot and the chain head more than 30000 above
\* floor(c / 30000) * 30000, its first lite build is at
\* floor(c / 30000) * 30000 + 30000; and no lite build is ever started at or
\* below floor(c / 30000) * 30000 for the c at the head at that time (with
\* c = 60000 and chain head 95000: 90000, none at 30000 or 60000).
C18_LiteResumesAfterCursor ==
    [][/\ (/\ bld.pc = "historic"
           /\ bld' # bld
           /\ broker.head["snapshot"] # <<>>
           /\ chain - AlignDown(broker.head["snapshot"][1].body["Epoch"], LiteDepth)
                 > LiteDepth)
            => /\ bld'.phase = "lite"
               /\ bld'.epoch
                    = AlignDown(broker.head["snapshot"][1].body["Epoch"], LiteDepth)
                         + LiteDepth
       /\ (BuildStartStep("lite") /\ broker.head["snapshot"] # <<>>)
            => bld'.epoch
                  > AlignDown(broker.head["snapshot"][1].body["Epoch"], LiteDepth)]_vars

\* C18: Build started with epoch 60000 at the head of snapshot and chain
\* head 95000, and its first lite build is the one of 90000
C18_Witness ==
    /\ bld.pc \in {"wait", "build"}
    /\ bld.phase = "lite"
    /\ bld.epoch = 90000
    /\ bld.current_epoch = 95000
    /\ broker.count["snapshot"] = 1
    /\ broker.head["snapshot"] # <<>>
    /\ broker.head["snapshot"][1].body["Epoch"] = 60000

\* the epochs of the envelopes published to a stream so far
PublishedEpochs(S) == {body["Epoch"] : body \in Published(S)}

\* the first pass of historic Build from an empty broker and an empty disk,
\* with chain head 31000 and DEFAULT_START_EPOCH = 0, has ended and no build
\* of it failed
FirstPassDone ==
    /\ bld.pc = "historic"
    /\ env.DEFAULT_START_EPOCH = 0
    /\ bld.current_epoch = 31000
    /\ bld.lite_historic_epoch = 0
    /\ bld.diff_historic_epoch = 0
    /\ ~bld.restart
    /\ bld.failures = 0
    /\ broker.count["snapshot-latest"] = 0

\* C20: from an empty broker with chain head 31000 and DEFAULT_START_EPOCH
\* = 0, historic Build has built, when its pass ends, one lite snapshot at
\* epoch 30000 and ten diff snapshots at epochs 0, 3000, ..., 27000.
C20_LiteAndTenDiffs ==
    FirstPassDone
        => /\ PublishedEpochs("snapshot") = {30000}
           /\ PublishedEpochs("snapshot-diff") = {3000 * k : k \in 0 .. 9}
           /\ Len(broker.main["snapshot-diff"]) = 10

\* C20: the pass has ended with the lite snapshot of 30000 and ten diff
\* snapshots, of the epochs 3000, 6000, ..., 30000
C20_Witness ==
    /\ FirstPassDone
    /\ PublishedEpochs("snapshot") = {30000}
    /\ PublishedEpochs("snapshot-diff") = {3000 * k : k \in 1 .. 10}
    /\ Len(broker.main["snapshot-diff"]) = 10
    /\ \A k \in 1 .. 10 : SnapshotPath("diff", 3000 * k) \in fs

-----------------------------------------------------------------------------
(* Claims about latest mode, checked under SpecBuild *)

\* the epoch of the envelope at the head of snapshot-latest, 0 when the head
\* queue is empty
PreviousLatest ==
    IF broker.head["snapshot-latest"] = <<>> THEN 0
    ELSE broker.head["snapshot-latest"][1].body["Epoch"]

\* a pass of build_latest_snapshots decides in this step
LatestPassStep == bld.pc = "latest" /\ bld' # bld

\* C21: in latest mode every pass of the loop starts a latest-v2 build of
\* the chain head if and only if the chain head is 240 epochs or more above
\* the epoch at the head of snapshot-latest (0 when that queue is empty).
C21_LatestBuiltWhenDue ==
    [][LatestPassStep
          => ((/\ bld'.pc = "build"
               /\ bld'.phase = "latest"
               /\ BuildFolder(bld'.phase) = "latest-v2"
               /\ bld'.epoch = chain)
              <=> chain - PreviousLatest >= 240)]_vars

\* C21: a pass found the chain head exactly 240 epochs above the last latest
\* snapshot and is to build the latest-v2 snapshot of the chain head
C21_Witness ==
    /\ bld.pc = "build"
    /\ bld.phase = "latest"
    /\ bld.epoch = chain
    /\ chain - PreviousLatest = 240

-----------------------------------------------------------------------------
(* Claims about the object store, checked under Spec *)

\* the envelopes Build has published that are still in a queue, in a
\* dead-letter queue or unacked with the Upload worker
SnapshotBodies ==
    UNION { Bodies(broker.main[S]) \cup Bodies(broker.dlq[S]) : S \in Streams }
        \cup {broker.held["upload"][i].msg.body :
                 i \in 1 .. Len(broker.held["upload"])}

\* the objects stored for the snapshot a body names
ObjectsOf(body) ==
    {store[<<SnapOf(body), kind>>] : kind \in StoreKinds} \ {Absent}

\* C22: every object put for a lite or diff snapshot is in
\* ARCHIVE_BUCKET_NAME, every object put for a latest-v1 or latest-v2
\* snapshot is in LATEST_BUCKET_NAME, and its key lies under
\* <network>/<folder>/.
C22_BucketByVariant ==
    \A body \in SnapshotBodies : \A o \in ObjectsOf(body) :
        /\ o.prefix = <<"CHAIN", PathOf(body).folder>>
        /\ PathOf(body).folder \in {"lite", "diff"}
              => o.bucket = "ARCHIVE_BUCKET_NAME"
        /\ PathOf(body).folder \in {"latest-v1", "latest-v2"}
              => o.bucket = "LATEST_BUCKET_NAME"

\* C22: the blob of a latest-v2 snapshot is stored in the bucket named by
\* LATEST_V2_BUCKET_NAME
C22_Witness ==
    \E body \in SnapshotBodies :
        /\ PathOf(body).folder = "latest-v2"
        /\ store[<<SnapOf(body), "blob">>] # Absent
        /\ store[<<SnapOf(body), "blob">>].bucket = "LATEST_V2_BUCKET_NAME"

\* the thread of the current message runs upload_snapshot through its three
\* puts in this step
UploadRunStep == u_pc = "join" /\ UploadAlive(u_task) /\ u_task'.pc = "done"

\* the key of an object of the current message
TaskKey(kind) == <<SnapOf(u_task.body), kind>>

\* C23: of the objects the HEAD finds present, only the main blob is left
\* as it is, while the sha256sum and metadata.json sidecars are put again;
\* and a message whose blob was found present is acked and its envelope
\* published to upload.
C23_OnlyBlobSkipped ==
    [][/\ UploadRunStep
            => /\ "blob" \in u_task'.found
                    => store'[TaskKey("blob")] = store[TaskKey("blob")]
               /\ \A kind \in u_task'.found \ {"blob"} :
                    store'[TaskKey(kind)].puts = store[TaskKey(kind)].puts + 1
       /\ (UploadFinishedStep /\ u_task.pc = "done" /\ "blob" \in u_task.found)
            => /\ PublishedTo("upload", u_task.body)
               /\ broker'.held["upload"] = <<>>
               /\ \A S \in Streams : broker'.dlq[S] = broker.dlq[S]]_vars

\* C23: a redelivered message found all three objects present, and each of
\* them has been written once
C23_Witness ==
    /\ u_pc = "join"
    /\ u_task.pc = "done"
    /\ u_task.found = StoreKinds
    /\ \A kind \in StoreKinds : store[TaskKey(kind)].puts = 1

\* C24: whenever an upload is reported successful (the message is acked and
\* its envelope published to upload), the sha256 sidecar, the metadata.json
\* sidecar and the main blob of the snapshot are all in the object store; a
\* failed put of a sidecar makes the upload fail.
C24_SuccessMeansThreeObjects ==
    [][(UploadFinishedStep /\ u_task.result)
          => \A kind \in StoreKinds : store[TaskKey(kind)] # Absent]_vars

\* C24: an envelope is on upload, the blob of its snapshot is stored and the
\* sha256 sidecar is not
C24_Witness ==
    \E body \in Bodies(broker.main["upload"]) :
        /\ store[<<SnapOf(body), "blob">>] # Absent
        /\ store[<<SnapOf(body), "sha256sum">>] = Absent

\* the three objects of a snapshot are in the object store
UploadCompleted(snap) == \A kind \in StoreKinds : store[<<snap, kind>>] # Absent

\* C26: once the three objects of a snapshot are stored, no later run of the
\* Upload stage for that snapshot (a redelivered message, or the thread of
\* an abandoned one) changes any of them: the same three keys with the same
\* contents, none written again.
C26_RerunLeavesStore ==
    [][\A snap \in Snaps :
          UploadCompleted(snap)
              => \A kind \in StoreKinds :
                    store'[<<snap, kind>>] = store[<<snap, kind>>]]_vars

\* C26: the run of a redelivered message has ended with success after
\* finding all three objects of its snapshot in the store
C26_Witness ==
    /\ u_pc = "join"
    /\ u_task.pc = "done"
    /\ u_task.result
    /\ u_task.found = StoreKinds
    /\ UploadCompleted(SnapOf(u_task.body))

\* the messages of a queue
Msgs(q) == {q[i] : i \in 1 .. Len(q)}

\* C30: every message published to exchange S arrives in the main queue S
\* and in the head queue S-head; a message of a main queue that the Upload
\* worker rejects with requeue=false is in S.dlq afterwards and neither
\* ready in S nor unacked, and a dead-lettered message stays in S.dlq and
\* never returns to S.
C30_FanoutAndDeadLetter ==
    [][/\ \A S \in Streams :
            broker'.count[S] > broker.count[S]
                => LET m == broker'.main[S][Len(broker'.main[S])]
                   IN  /\ m.id = broker'.count[S]
                       /\ m \notin Msgs(broker.main[S])
                       /\ m \in Msgs(broker'.head[S])
       /\ (UploadFinishedStep /\ ~u_task.result)
            => /\ UploadDelivery.msg \in Msgs(broker'.dlq[UploadDelivery.q])
               /\ UploadDelivery.msg \notin Msgs(broker'.main[UploadDelivery.q])
               /\ broker'.held["upload"] = <<>>
       /\ \A S \in Streams : \A m \in Msgs(broker.dlq[S]) :
            /\ m \in Msgs(broker'.dlq[S])
            /\ m \notin Msgs(broker'.main[S])
            /\ \A d \in Msgs(broker'.held["upload"]) : d.q = S => d.msg # m
      ]_vars

\* C30: a failed upload has left its message in the dead-letter queue of its
\* stream, and the envelope published to upload-failed is in the main queue
\* and in the head queue of that stream
C30_Witness ==
    /\ \E S \in {"snapshot", "snapshot-diff", "snapshot-latest"} :
          broker.dlq[S] # <<>> /\ broker.main[S] = <<>>
    /\ broker.main["upload-failed"] # <<>>
    /\ broker.head["upload-failed"] = broker.main["upload-failed"]

-----------------------------------------------------------------------------
(* Claims about the polling of the Upload worker, checked under
   SpecUploadFair *)

\* C25: the Upload worker serves snapshot, snapshot-diff and snapshot-latest
\* in turn: when a message waits in snapshot-diff or in snapshot-latest, the
\* worker eventually fetches a message of that queue, also when snapshot
\* never becomes empty.
C25_WaitingMessageServed ==
    \A S \in {"snapshot-diff", "snapshot-latest"} :
        (broker.main[S] # <<>>)
            ~> (broker.held["upload"] # <<>> /\ UploadDelivery.q = S)

\* C25: a message waits in snapshot-diff while the worker has fetched the
\* message of snapshot again, after a timeout returned it to the queue
C25_Witness ==
    /\ broker.main["snapshot-diff"] # <<>>
    /\ broker.held["upload"] # <<>>
    /\ UploadDelivery.q = "snapshot"
    /\ u_abandoned # <<>>
    /\ u_abandoned[1].body = UploadDelivery.msg.body

-----------------------------------------------------------------------------
(* Claims about faulty input, checked under SpecFaults *)

\* the malformed message Validate has at the front of upload
MalformedWaiting ==
    /\ broker.main["upload"] # <<>>
    /\ ~IsEnvelope(Head(broker.main["upload"]).body)

\* C27: no worker loop ends because of a processing error, and a message
\* Validate cannot parse is turned into a broker outcome (it is acked or
\* rejected, so it leaves the queue and is unacked no longer) and a counted
\* failure, after which the loop goes on.
C27_ErrorsBecomeOutcomes ==
    /\ [](v_pc # "crashed" /\ cmp.pc # "crashed" /\ bld.pc # "ended")
    /\ [][Validate_main_malformed
            => /\ Len(broker'.main["upload"]) < Len(broker.main["upload"])
               /\ broker'.held["validate"] = <<>>
               /\ metrics'["validate"].failure = 1]_vars

\* C27: main of Validate has ended on the first message it fetched, which
\* is back in upload
C27_Witness ==
    /\ v_pc = "crashed"
    /\ v_metadata = "unbound"
    /\ MalformedWaiting

\* C28: a head-queue message that is no cursor makes Compute go on from
\* DEFAULT_START_EPOCH, and a main-queue message that is no envelope is
\* dead-lettered by Validate and not in upload any more.
C28_MalformedNotRedelivered ==
    [][/\ Compute_main_malformed
            => /\ cmp'.pc \in {"loop", "top"}
               /\ cmp'.historic_start_epoch
                     = AlignDown(env.DEFAULT_START_EPOCH, env.COMPUTE_BATCH_SIZE)
       /\ Validate_main_malformed
            => /\ Head(broker.main["upload"]) \in
                     {broker'.dlq["upload"][i] : i \in 1 .. Len(broker'.dlq["upload"])}
               /\ Head(broker.main["upload"]) \notin
                     {broker'.main["upload"][i] : i \in 1 .. Len(broker'.main["upload"])}
      ]_vars

\* C28: Validate sleeps after a message it could not parse, and that
\* message is at the front of upload again, with nothing dead-lettered
C28_Witness ==
    /\ v_pc = "sleep"
    /\ MalformedWaiting
    /\ broker.dlq["upload"] = <<>>

\* C29: the Upload worker and the Validate worker each hold at most one
\* unacked message at any time, also after an exception in the processing
\* of a message.
C29_AtMostOneUnacked ==
    \A c \in {"upload", "validate"} : Len(broker.held[c]) <= 1

\* C29: after an exception returned the message of snapshot to its queue,
\* the Upload worker holds the message of snapshot-diff and no other
C29_Witness ==
    /\ u_pc = "join"
    /\ Len(broker.held["upload"]) = 1
    /\ UploadDelivery.q = "snapshot-diff"
    /\ broker.main["snapshot"] # <<>>

-----------------------------------------------------------------------------
(* Claims about the loops of the historic Build, checked under SpecBuild *)

\* a cursor is ready at the head of compute and its epoch lies above e
ComputeHeadAbove(e) ==
    IF broker.head["compute"] = <<>> THEN FALSE
    ELSE EpochOf(broker.head["compute"][1].body) > e

\* C31: with WAIT_FOR_COMPUTATION set, the build of a lite or diff epoch e
\* begins only out of the wait and only when the head of compute holds a
\* cursor above e; while the head is empty or its cursor is at most e,
\* Build stays in the wait and neither writes a file nor publishes.
C31_BuildWaitsForCompute ==
    [][env.WAIT_FOR_COMPUTATION
          => /\ (bld'.pc = "build" /\ bld.pc # "build"
                    /\ bld'.phase \in {"lite", "diff"})
                  => (bld.pc = "wait" /\ ComputeHeadAbove(bld'.epoch))
             /\ (bld.pc = "wait" /\ ~ComputeHeadAbove(bld.epoch))
                  => /\ bld' = bld
                     /\ fs' = fs
                     /\ \A S \in BuildStreams :
                          broker'.count[S] = broker.count[S]]_vars

\* C31: Build waits for an epoch while the cursor at the head of compute is
\* that very epoch
C31_Witness ==
    /\ env.WAIT_FOR_COMPUTATION
    /\ bld.pc = "wait"
    /\ broker.head["compute"] # <<>>
    /\ EpochOf(broker.head["compute"][1].body) = bld.epoch

\* a build of the lite loop returns ('', False) in this step: the failure is
\* counted and the call is over
LiteFailedStep ==
    /\ bld.phase = "lite"
    /\ bld.pc \in {"export", "exited"}
    /\ metrics'["build"].failure = metrics["build"].failure + 1

\* C32: when a lite build fails, the pass is over: Build is back at the top
\* of the outer loop, where it reads the chain head and both cursors, and no
\* diff build is begun in a pass in which a lite build has failed.
C32_LiteFailureRestartsPass ==
    [][/\ LiteFailedStep => (bld'.pc = "historic" /\ bld'.phase = "none")
       /\ (bld.restart /\ bld.pc # "historic")
             => ~(bld'.phase = "diff" /\ bld'.pc \in {"wait", "build"})
      ]_vars

\* C32: the export of a diff snapshot is running in a pass whose lite loop
\* was left by a failure
C32_Witness ==
    /\ bld.restart
    /\ bld.phase = "diff"
    /\ bld.pc = "export"
    /\ bld.failures = 1


\* a pass of build_historic_snapshots ends in this step: at its top when no
\* loop has an epoch to build, or when a build of a loop returns
PassEndStep ==
    /\ bld'.phase = "none"
    /\ bld'.pc \in {"historic", "day"}
    /\ \/ bld.phase \in {"lite", "diff"}
       \/ bld.pc = "historic" /\ bld'.pc = "day"

\* C33: a pass of historic Build is followed by the sleep of 24 hours if and
\* only if no build of the lite loop or of the diff loop succeeded in it; a
\* pass in which a snapshot was built goes to the next pass without the
\* sleep.
C33_DaySleepIffNothingBuilt ==
    [][PassEndStep => (bld'.pc = "day" <=> ~bld'.built)]_vars

\* C33: Build is in the sleep of 24 hours after a pass whose lite loop had
\* epochs to build and in which builds succeeded and none failed
C33_Witness ==
    /\ bld.pc = "day"
    /\ bld.current_epoch - bld.lite_historic_epoch > LiteDepth
    /\ bld.built
    /\ metrics["build"].failure = 0


-----------------------------------------------------------------------------
(* Claims about the batches of Compute, checked under SpecCompute *)

\* a call of compute_state ends in this step with its exception: the batch
\* run and one of the epoch-by-epoch runs have failed
ComputeFailedStep ==
    /\ cmp.pc = "loop"
    /\ metrics'["compute"].failure > metrics["compute"].failure

\* the messages of compute-head, ready or delivered to a connection and not
\* settled
ComputeHeadMessages ==
    {broker.head["compute"][i] : i \in 1 .. Len(broker.head["compute"])}
      \cup UNION {{broker.held[c][i].msg :
                      i \in {j \in 1 .. Len(broker.held[c]) :
                                /\ broker.held[c][j].q = "compute"
                                /\ broker.held[c][j].latest}} : c \in Conns}

\* the cursor published last, which is the one compute-head keeps; the
\* default when nothing was published yet
ComputeHeadCursor(default) ==
    IF ComputeHeadMessages = {} THEN default
    ELSE EpochOf((CHOOSE m \in ComputeHeadMessages :
                    \A n \in ComputeHeadMessages : n.id <= m.id).body)

\* C34: when the batch run and then an epoch-by-epoch run of a batch fail,
\* the failure is notified, no cursor is published, the remaining batches of
\* the pass are given up and Compute is back at the top of its outer loop,
\* where it reads the chain head and the head of compute; the pass that
\* follows starts at the batch of the cursor at the head of compute.
C34_FailureEndsThePass ==
    [][/\ ComputeFailedStep =>
            /\ cmp'.notify = "failed"
            /\ broker' = broker
            /\ cmp'.pc = "top"
       /\ (cmp.pc = "top" /\ cmp'.pc # "top" /\ cmp.notify = "failed") =>
            /\ cmp'.pc = "cursor"
            /\ cmp'.current_epoch = chain
       /\ (cmp.pc = "cursor" /\ cmp'.pc \in {"loop", "top"}
              /\ cmp.notify = "failed" /\ cmp'.notify = "failed") =>
            cmp'.epoch = AlignDown(ComputeHeadCursor(env.DEFAULT_START_EPOCH),
                                   env.COMPUTE_BATCH_SIZE)
      ]_vars

\* C34: after a failure that followed a published cursor, Compute begins a
\* pass below the batch of the cursor at the head of compute
C34_Witness ==
    /\ cmp.pc = "loop"
    /\ cmp.notify = "failed"
    /\ ComputeHeadMessages # {}
    /\ cmp.epoch < AlignDown(ComputeHeadCursor(env.DEFAULT_START_EPOCH),
                             env.COMPUTE_BATCH_SIZE)


\* a call of compute_state returns in this step without an exception: the
\* batch run succeeded, or it failed and every epoch-by-epoch run succeeded
BatchCompletedStep ==
    /\ cmp.pc = "loop"
    /\ cmp' # cmp
    /\ cmp'.current_epoch = cmp.current_epoch
    /\ metrics'["compute"].failure = metrics["compute"].failure

\* the cursors published to compute, in the order of their publication
PublishedCursors ==
    [i \in 1 .. Len(broker.main["compute"]) |->
        EpochOf(broker.main["compute"][i].body)]

\* C35: every batch that Compute completes, by the batch run or by the
\* epoch-by-epoch runs after it, publishes the cursor e + COMPUTE_BATCH_SIZE
\* to compute before the next batch starts, and no cursor published lies
\* more than COMPUTE_BATCH_SIZE above the one published before it.
C35_EveryBatchPublishesItsCursor ==
    /\ [][BatchCompletedStep =>
            broker' = produce(broker, "compute",
                          EpochBody(cmp.epoch + env.COMPUTE_BATCH_SIZE))]_vars
    /\ [](\A i \in 1 .. Len(PublishedCursors) - 1 :
            PublishedCursors[i + 1] - PublishedCursors[i]
                <= env.COMPUTE_BATCH_SIZE)

\* C35: the first batch of a pass was completed by the epoch-by-epoch runs,
\* the second one is due and no cursor has ever been published
C35_Witness ==
    /\ cmp.pc = "loop"
    /\ cmp.epoch = cmp.historic_start_epoch + env.COMPUTE_BATCH_SIZE
    /\ broker.count["compute"] = 0


-----------------------------------------------------------------------------
(* Claims about what a successful build leaves on the broker, checked under
   SpecBuild *)

\* a call of build_snapshot of the lite or the diff loop returns
\* (snapshot, True) in this step: at once because the target exists, or
\* after an export that wrote it
HistoricSuccessStep ==
    /\ bld.phase \in {"lite", "diff"}
    /\ \/ bld.pc = "build" /\ bld' # bld /\ bld'.pc # "export"
       \/ BuildSuccessStep

\* C36: when a build attempt of a historic epoch returns success, also one
\* that found the target file on disk, an envelope of that epoch is on the
\* stream of the variant (snapshot or snapshot-diff) and the cursor at the
\* head of the stream is that epoch.
C36_SuccessHasEnvelope ==
    [][HistoricSuccessStep =>
         /\ \E i \in 1 .. Len(broker'.main[VariantExchange(bld.phase)]) :
               broker'.main[VariantExchange(bld.phase)][i].body["Epoch"]
                   = bld.epoch
         /\ head_epoch(broker', VariantExchange(bld.phase), -1) = bld.epoch
      ]_vars

\* C36: the lite loop has passed epoch 90000, whose file an earlier run left
\* on disk, without a failure, and no envelope of 90000 is on snapshot
C36_Witness ==
    /\ bld.phase = "diff"
    /\ ~bld.restart
    /\ bld.lite_historic_epoch = 60000
    /\ SnapshotPath("lite", 90000) \in fs
    /\ 90000 \notin PublishedEpochs("snapshot")


-----------------------------------------------------------------------------
(* Claims about outcomes and deliveries when calls to the broker fail,
   checked under SpecUploadFaults *)

\* the message the Upload worker holds leaves its queue for good in this
\* step: it is neither ready in the queue nor unacked afterwards
UploadRemovedStep ==
    /\ broker.held["upload"] # <<>>
    /\ broker'.held["upload"] = <<>>
    /\ UploadDelivery.msg \notin Msgs(broker'.main[UploadDelivery.q])

\* C37: the Upload worker removes no message from its queue without the
\* matching outcome, also when the publish fails or the process ends between
\* the two broker calls: a message that is acked has its envelope published
\* to upload, one that is rejected with requeue=false to upload-failed.
C37_RemovedHasOutcome ==
    [][UploadRemovedStep =>
         IF UploadDelivery.msg \in Msgs(broker'.dlq[UploadDelivery.q])
         THEN PublishedTo("upload-failed", UploadDelivery.msg.body)
         ELSE PublishedTo("upload", UploadDelivery.msg.body)]_vars

\* C37: both queued messages have left their queues, one of them acked, and
\* nothing was ever published to upload
C37_Witness ==
    /\ u_pc = "poll"
    /\ \A S \in Streams : broker.main[S] = <<>>
    /\ broker.held["upload"] = <<>>
    /\ metrics["upload"].success > 0
    /\ broker.count["upload"] = 0


-----------------------------------------------------------------------------
(* Claims about the threads of the Upload worker, checked under Spec *)

\* C38: at most one subordinate task of a worker runs at any time: while
\* the thread of the current message of Upload (of Validate) is alive, no
\* thread that a timeout left behind is still uploading (still driving the
\* daemon).
C38_OneTaskRunning ==
    /\ (u_pc = "join" /\ UploadAlive(u_task)) => u_abandoned = <<>>
    /\ (v_pc = "join" /\ ValidateAlive(v_task)) => v_abandoned = <<>>

\* C38: the message requeued by a timeout was fetched again and its new
\* thread runs next to the thread the timeout left behind
C38_Witness ==
    /\ u_pc = "join"
    /\ UploadAlive(u_task)
    /\ Len(u_abandoned) = 1
    /\ UploadAlive(u_abandoned[1])
    /\ u_abandoned[1].body = u_task.body


-----------------------------------------------------------------------------
(* Claims about the whole pipeline, checked under SpecPipelineFair *)

\* the messages of snapshot n in the main queue S, ready or unacked
InQueue(S, n) ==
    {m \in Msgs(broker.main[S]) : IsEnvelope(m.body) /\ SnapOf(m.body) = n}
      \cup UNION {{broker.held[c][i].msg :
                      i \in {j \in 1 .. Len(broker.held[c]) :
                                /\ broker.held[c][j].q = S
                                /\ ~broker.held[c][j].latest
                                /\ SnapOf(broker.held[c][j].msg.body) = n}}
                  : c \in Conns}

\* the envelope of snapshot n waits for a worker or is being worked on
InFlight(n) ==
    \E S \in {"snapshot", "snapshot-diff", "snapshot-latest", "upload"} :
        InQueue(S, n) # {}

\* a terminal message of snapshot n exists
Terminal(n) ==
    \E S \in {"validate", "validate-failed", "upload-failed"} :
        InQueue(S, n) # {}

-----------------------------------------------------------------------------
(* Claims about a lost connection, checked under SpecValidateFaults *)

\* an outcome of Validate is published in this step
ValidateOutcomeStep ==
    \E S \in {"validate", "validate-failed"} :
        broker'.count[S] = broker.count[S] + 1

\* C40: the worker settles a delivery on the channel that delivered it, also
\* when the connection is lost while the thread runs: a step that publishes
\* an outcome finds the delivery still unacked on the worker's channel and
\* leaves the message neither ready in upload nor unacked, and no snapshot
\* gets a second outcome.
C40_SettledOnDeliveringChannel ==
    /\ [][ValidateOutcomeStep =>
            /\ broker.held["validate"] # <<>>
            /\ ValidateDelivery.msg \notin Msgs(broker'.main["upload"])
            /\ broker'.held["validate"] = <<>>]_vars
    /\ [](\A n \in Snaps :
            Len(SelectSeq(broker.main["validate"] \o broker.main["validate-failed"],
                          LAMBDA m : SnapOf(m.body) = n)) <= 1)

\* C40: the outcome of a message was published after its connection was
\* lost, and the message is ready in upload again
C40_Witness ==
    /\ v_pc = "poll"
    /\ broker.count["validate"] + broker.count["validate-failed"] = 1
    /\ broker.main["upload"] # <<>>
    /\ \E S \in {"validate", "validate-failed"} :
          /\ broker.main[S] # <<>>
          /\ SnapOf(broker.main[S][1].body) = SnapOf(broker.main["upload"][1].body)

====
